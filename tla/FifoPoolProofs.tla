--------------------------- MODULE FifoPoolProofs ---------------------------
(***************************************************************************)
(* The FIFO pool loses and doubles no job and keeps to its limits and to   *)
(* the order of admission, for any roster, any number of jobs and any      *)
(* policies: what its handlers, and then every step of the pool and the    *)
(* runtime around it, keep.                                                *)
(***************************************************************************)
EXTENDS FifoPoolJobs

-----------------------------------------------------------------------------
(* Handlers of an operating pool.                                            *)

\* A submission.
LEMMA SubmissionGood ==
    ASSUME Counting, NEW p, NEW s \in Nat, Good(p, p, s), p.mode = "Operating", s < NJobs
    PROVE  Good(p, AcceptSubmission(p, s + 1), s + 1)
<1> DEFINE j == s + 1
           q == [p EXCEPT !.jobs = @ - 1]
           r == AvailablePosition(p)
<1>0. Sound(p, p, s, 0) /\ Served(p) /\ p \in PoolStates
  BY DEF Good, Sound
<1>1. Alters(p, q) /\ q \in PoolStates
  BY Zenon, <1>0, Alterations DEF Alters
<1> HIDE DEF q
<1>2. Sound(p, q, s, 0)
  BY <1>0, <1>1, Altered
<1>3. j \in Jobs /\ j \in 0 .. NJobs /\ q.told[j] = <<>> /\ Append(<<>>, "Accepted") = Open
  <2>1. j \in Jobs /\ j \in 0 .. NJobs /\ s < j
    BY PoolAssumption DEF Jobs
  <2>2. QED BY <1>2, <2>1, Tuples DEF Sound, Conserved, Open
<1>4. /\ q.member = p.member /\ q.backlog = p.backlog /\ q.mode = p.mode
      /\ OpenJobs(q) = OpenJobs(p)
  BY <1>1 DEF Alters, OpenJobs
<1>5. \/ AvailablePosition(p) = 0 /\ \A t \in Roles : p.member[t].at # "Idle"
      \/ r \in Roles /\ p.member[r].at = "Idle"
  BY <1>0, Available
<1>6. \A u : /\ u = p \/ u = q => Good(p, Deliver(u, j, "Rejected"), j)
  <2>1. ASSUME NEW u, Sound(p, u, s, 0), Served(u) PROVE Good(p, Deliver(u, j, "Rejected"), j)
    <3>1. LET d == Deliver(u, s + 1, "Rejected")
          IN  Sound(p, d, s + 1, 0) /\ d.member = u.member /\ d.mode = u.mode
              /\ d.backlog = u.backlog
      BY <2>1, Refused
    <3>2. QED BY <2>1, <3>1, StillServed DEF Good
  <2>2. Served(q)
    BY Zenon, <1>0, <1>4, StillServed
  <2>3. QED BY <1>0, <1>2, <2>1, <2>2
<1>7. ASSUME r = 0, Recoverable(p), ~(Cardinality(p.backlog) >= BacklogCapacity)
      PROVE  Good(p, Deliver([q EXCEPT !.backlog = @ \cup {j}], j, "Accepted"), j)
  <2> DEFINE b == [q EXCEPT !.backlog = @ \cup {j}]
             d == Deliver(b, j, "Accepted")
  <2>1. /\ b \in PoolStates /\ b.told = q.told /\ b.backlog = q.backlog \cup {j}
        /\ b.member = q.member /\ b.charges = q.charges /\ b.mode = q.mode
    BY Zenon, <1>1, <1>3 DEF PoolStates
  <2> HIDE DEF b
  <2>2. /\ d \in PoolStates /\ d.told = [q.told EXCEPT ![j] = Open]
        /\ d.backlog = p.backlog \cup {j} /\ d.member = p.member /\ d.charges = q.charges
        /\ d.mode = p.mode
    BY Zenon, <1>3, <1>4, <2>1 DEF Deliver, PoolStates
  <2> HIDE DEF d
  <2>3. Cardinality(OpenJobs(q)) < BacklogCapacity + NRoles
    <3> DEFINE busy == {t \in Roles : Busy(p, t)}
    <3>1. Cardinality(busy) \in Nat /\ Cardinality(busy) <= NRoles
      BY FiniteRoles
    <3>2. /\ Cardinality(p.backlog) \in Nat /\ Cardinality(OpenJobs(p)) \in Nat
          /\ Cardinality(OpenJobs(p)) <= Cardinality(p.backlog) + Cardinality(busy)
      BY <1>0, OpenBound
    <3> HIDE DEF busy
    <3>3. QED BY <1>4, <1>7, <3>1, <3>2, PoolAssumption
  <2>4. Admits1(p, q, d, j)
    BY <1>4, <2>2 DEF Admits1
  <2>5. Sound(p, d, j, 0)
    BY <1>2, <2>3, <2>4, Admitted
  <2>6. Served(d)
    <3>1. \A t \in Roles : p.member[t].at # "Idle"
      BY <1>5, <1>7, FiniteRoles
    <3>2. \E t \in Roles : p.member[t].at # "Retired"
      BY <1>7 DEF Recoverable
    <3>3. QED BY <2>2, <3>1, <3>2 DEF Served
  <2>7. QED BY <2>5, <2>6 DEF Good, d, b
<1>8. ASSUME r # 0
      PROVE  Good(p, Deliver(DispatchTo(q, r, j), j, "Accepted"), j)
  <2> DEFINE u == DispatchTo(q, r, j)
             d == Deliver(u, j, "Accepted")
             m == Assign(q.member[r], j)
  <2>1. r \in Roles /\ p.member[r].at = "Idle" /\ p.backlog = {}
    BY <1>0, <1>5, <1>8 DEF Served
  <2> HIDE DEF r
  <2>2. /\ m.at = "Busy" /\ m.job = j
        /\ u \in PoolStates /\ u.member = [q.member EXCEPT ![r] = m]
        /\ u.backlog = q.backlog /\ u.told = q.told /\ u.charges = q.charges
        /\ u.mode = q.mode
    <3>1. Hands(q, u, r, j, m)
      BY <1>1, <1>3, <2>1, DispatchType
    <3>2. QED BY <3>1 DEF Hands
  <2> HIDE DEF u, m
  <2>3. /\ d \in PoolStates /\ d.told = [q.told EXCEPT ![j] = Open]
        /\ d.backlog = {} /\ d.member = u.member /\ d.charges = q.charges
        /\ d.mode = p.mode
    BY Zenon, <1>3, <1>4, <2>1, <2>2 DEF Deliver, PoolStates
  <2> HIDE DEF d
  <2>4. /\ d.member[r] = m /\ \A t \in Roles : t # r => d.member[t] = p.member[t]
    <3>1. q.member \in [Roles -> Members]
      BY <1>1 DEF PoolStates
    <3>2. QED BY <1>4, <2>1, <2>2, <2>3, <3>1
  <2>5. Cardinality(OpenJobs(q)) < BacklogCapacity + NRoles
    <3> DEFINE busy == {t \in Roles : Busy(p, t)}
    <3>1. busy \subseteq Roles \ {r}
      BY <2>1 DEF Busy
    <3>2. IsFiniteSet(Roles) /\ Cardinality(Roles) = NRoles
      BY FiniteRoles
    <3>3. IsFiniteSet(Roles \ {r}) /\ Cardinality(Roles \ {r}) = NRoles - 1
      BY <2>1, <3>2, CountRemoved
    <3>4. /\ Cardinality(p.backlog) \in Nat /\ Cardinality(OpenJobs(p)) \in Nat
          /\ Cardinality(busy) \in Nat
          /\ Cardinality(OpenJobs(p)) <= Cardinality(p.backlog) + Cardinality(busy)
      BY <1>0, OpenBound
    <3> HIDE DEF busy
    <3>5. Cardinality(busy) <= NRoles - 1
      BY <3>1, <3>3, CountSubset
    <3>6. Cardinality(p.backlog) = 0
      BY <2>1, CountEmpty
    <3>7. QED BY <1>4, <3>4, <3>5, <3>6, PoolAssumption
  <2>6. Admits1(p, q, d, j)
    <3>1. ~Busy(q, r) /\ Busy(d, r) /\ d.member[r].job = j
      BY <1>4, <2>1, <2>2, <2>4 DEF Busy
    <3>2. QED BY <1>4, <2>1, <2>3, <2>4, <3>1 DEF Admits1
  <2>7. Sound(p, d, j, 0)
    BY <1>2, <2>5, <2>6, Admitted
  <2>8. QED BY Zenon, <2>3, <2>7 DEF Good, Served, d, u
<1>9. QED
  <2>1. AcceptSubmission(p, j) =
          IF \/ ~Recoverable(p) \/ p.jobs = 0
             \/ r = 0 /\ Cardinality(p.backlog) >= BacklogCapacity
          THEN Deliver(p, j, "Rejected")
          ELSE IF r = 0 THEN Deliver([q EXCEPT !.backlog = @ \cup {j}], j, "Accepted")
          ELSE IF p.assignments = 0 THEN Deliver(q, j, "Rejected")
          ELSE Deliver(DispatchTo(q, r, j), j, "Accepted")
    BY DEF AcceptSubmission, q
  <2> HIDE DEF r, j
  <2>2. Good(p, AcceptSubmission(p, j), j)
    BY <1>6, <1>7, <1>8, <2>1
  <2>3. QED BY <2>2 DEF j

\* The settlement of a batch of creations.
LEMMA CreationsGood ==
    ASSUME Counting,
           NEW p, NEW s, Good(p, p, s), NEW outcome, DOMAIN outcome \subseteq Workers
    PROVE  Good(p, AcceptCreations(p, outcome), s)
<1> DEFINE batch   == DOMAIN outcome
           members == [r \in Roles |->
                          IF \E w \in batch : w[1] = r
                          THEN AdmitCreation(p.member[r], outcome[WorkerOf(p, r)])
                          ELSE p.member[r]]
           sent    == {Req("initialize", {w}, NoJob) :
                          w \in {v \in batch : outcome[v] = "Established"}}
           q       == [p EXCEPT !.member = members, !.sent = sent]
<1>0. Sound(p, p, s, 0) /\ Served(p) /\ p \in PoolStates /\ 0 \notin Roles
  BY FiniteRoles DEF Good, Sound
<1>1. CASE \E w \in batch : ~Holds(p, w, {"Creating"})
  BY <1>1 DEF AcceptCreations
<1>2. CASE \A w \in batch : Holds(p, w, {"Creating"})
  <2>1. \A r \in Roles : p.member[r] \in Members
    BY <1>0 DEF PoolStates
  <2>2. \A r \in Roles : \A o :
           /\ AdmitCreation(p.member[r], o) \in Members
           /\ AdmitCreation(p.member[r], o).at \in {"Initializing", "Retired"}
    <3>1. SUFFICES ASSUME NEW r \in Roles
                   PROVE  /\ [p.member[r] EXCEPT !.at = "Initializing"] \in Members
                          /\ [p.member[r] EXCEPT !.at = "Initializing"].at = "Initializing"
                          /\ Retire(p.member[r]) \in Members
                          /\ Retire(p.member[r]).at = "Retired"
      BY Zenon DEF AdmitCreation
    <3>2. "Initializing" \in States
      BY Names
    <3>3. QED BY <2>1, <3>2, Records DEF Members
  <2>3. members \in [Roles -> Members]
    BY <2>1, <2>2
  <2>4. \A r \in Roles : \/ members[r] = p.member[r]
                         \/ /\ p.member[r].at = "Creating"
                            /\ members[r].at \in {"Initializing", "Retired"}
    BY <1>2, <2>2 DEF Holds
  <2>5. sent \subseteq Requests
    BY Names DEF Req, Requests, Ops
  <2>6. (\A w \in batch : outcome[w] = "Established") =>
           \A r \in Roles : \/ members[r] = p.member[r]
                            \/ members[r].at = "Initializing"
    <3>1. \A r \in Roles : (\E w \in batch : w[1] = r) => WorkerOf(p, r) \in batch
      BY <1>2 DEF Holds, WorkerOf, Workers
    <3>2. \A r \in Roles : AdmitCreation(p.member[r], "Established").at = "Initializing"
      BY <2>1 DEF AdmitCreation, Members
    <3>3. QED BY <3>1, <3>2
  <2> HIDE DEF members, sent
  <2>7. /\ q \in PoolStates /\ q.member = members /\ q.told = p.told
        /\ q.backlog = p.backlog /\ q.charges = p.charges /\ q.mode = p.mode
    BY Zenon, <1>0, <2>3, <2>5 DEF PoolStates
  <2>8. AcceptCreations(p, outcome) =
           IF \A w \in batch : outcome[w] = "Established" THEN q
           ELSE IF p.conf.failure = "StopPool" THEN BeginShutdown(q)
           ELSE ReturnUnrecoverableJobs(FillFifo(q))
    BY <1>2 DEF AcceptCreations, members, sent
  <2> HIDE DEF q
  <2>9. Updates(p, q, 0)
    BY Zenon, <1>0, <2>4, <2>7 DEF Updates, Alike, Occupied
  <2>10. Sound(p, q, s, 0)
    BY <1>0, <2>9, Update
  <2>11. (\A w \in batch : outcome[w] = "Established") => Good(p, q, s)
    BY <1>0, <2>6, <2>7, <2>10, StillServed DEF Good
  <2>12. Good(p, BeginShutdown(q), s)
    BY <2>10, ShutdownEnds DEF Good, Served
  <2>13. Good(p, ReturnUnrecoverableJobs(FillFifo(q)), s)
    BY <2>10, FilledReturned
  <2>14. QED BY <2>8, <2>11, <2>12, <2>13
<1>3. QED BY <1>1, <1>2

\* A free role is recovered, and those that wait are authorized.
LEMMA PreReadyStopGood ==
    ASSUME Counting, NEW p0, NEW p, NEW s, NEW r \in Roles, Sound(p0, p, s, 0), ~Busy(p, r)
    PROVE  Good(p0, RecoverWorker(p, r), s) /\ Good(p0, ContinueAfterPreReadyStop(p, r), s)
<1>1. Sound(p0, p, s, r)
  BY Exempt
<1>2. Good(p0, RecoverWorker(p, r), s)
  BY <1>1, Recovered
<1>3. QED BY <1>2, Authorized DEF ContinueAfterPreReadyStop

ExitNoted(p0, p, q, r, s) ==
    /\ Good(p0, q, s) /\ q.mode = p.mode
    /\ q.member[r].at = p.member[r].at /\ q.member[r].job = p.member[r].job

\* A role's worker is seen to stop.
LEMMA StopRecorded ==
    ASSUME Counting,
           NEW p0, NEW p, NEW s, NEW r \in Roles, Good(p0, p, s), NEW kind \in Stops,
           NEW now \in Nat
    PROVE  ExitNoted(p0, p, With(p, r, Stopped(p.member[r], kind, now)), r, s)
<1> DEFINE m == Stopped(p.member[r], kind, now)
<1>1. p.member[r] \in Members
  BY DEF Good, Sound, PoolStates
<1>2. m \in Members /\ m.at = p.member[r].at /\ m.job = p.member[r].job
  BY <1>1, MemberTypes
<1> HIDE DEF m
<1>3. Alike(p.member[r], m)
  BY <1>2 DEF Alike, Occupied
<1>4. Good(p0, With(p, r, m), s) /\ With(p, r, m).member[r] = m /\ With(p, r, m).mode = p.mode
  BY <1>2, <1>3, Changed
<1>5. QED BY <1>2, <1>4 DEF ExitNoted, m

\* The report of an initialization.
LEMMA InitializationGood ==
    ASSUME Counting,
           NEW p, NEW s, Good(p, p, s), NEW w \in Workers, NEW report, NEW kind \in Stops,
           NEW now \in Nat
    PROVE  Good(p, AcceptInitialization(p, w, report, kind, now), s)
<1> DEFINE r == w[1]
           m == p.member[r]
           n == At(m, "WaitingForStartup", NoSub)
           stopped == With(p, r, Stopped(m, kind, now))
<1>0. Sound(p, p, s, 0) /\ Served(p) /\ r \in Roles /\ m \in Members
  BY Zenon DEF Good, Sound, Workers, PoolStates
<1> HIDE DEF r
<1>1. CASE ~Holds(p, w, {"Initializing"})
  BY Zenon, <1>1 DEF AcceptInitialization
<1>2. CASE Holds(p, w, {"Initializing"})
  <2>1. m.at = "Initializing" /\ ~Busy(p, r)
    BY <1>2 DEF Holds, Busy, r
  <2>2. Good(p, AuthorizeWaiting(With(p, r, n)), s)
    <3>1. n \in Members /\ n.at = "WaitingForStartup"
      BY <1>0, Records
    <3> HIDE DEF n
    <3>2. Alike(m, n)
      BY <2>1, <3>1 DEF Alike, Occupied
    <3>3. Good(p, With(p, r, n), s)
      BY Zenon, <1>0, <3>1, <3>2, Changed
    <3>4. QED BY <3>3, Authorized
  <2>3. Good(p, ContinueAfterPreReadyStop(p, r), s)
    BY <1>0, <2>1, PreReadyStopGood
  <2>4. Good(p, ContinueAfterPreReadyStop(stopped, r), s)
    <3>1. Good(p, stopped, s) /\ stopped.member[r].at = m.at
      <4>1. ExitNoted(p, p, stopped, r, s)
        BY <1>0, StopRecorded
      <4> HIDE DEF stopped
      <4>2. QED BY <4>1 DEF ExitNoted
    <3> HIDE DEF stopped
    <3>2. Sound(p, stopped, s, 0) /\ ~Busy(stopped, r)
      BY Zenon, <2>1, <3>1 DEF Good, Busy
    <3>3. QED BY <1>0, <3>2, PreReadyStopGood
  <2>5. Good(p, BeginShutdown(p), s)
    BY <1>0, ShutdownEnds DEF Good, Served
  <2>6. Good(p, RequestWorkerShutdown(p, r), s)
    BY <1>0, <2>1, Exempt, WorkerShutdownRequested
  <2>7. Good(p, ReturnedInitialization(p, r, report, kind, now), s)
    BY <2>3, <2>4, <2>5, <2>6 DEF ReturnedInitialization
  <2>8. QED BY Zenon, <1>2, <2>2, <2>7 DEF AcceptInitialization, r
<1>3. QED BY <1>1, <1>2

\* The report of a startup.
LEMMA StartupGood ==
    ASSUME Counting, NEW p, NEW s, Good(p, p, s), NEW w \in Workers, NEW report
    PROVE  Good(p, AcceptStartup(p, w, report), s)
<1> DEFINE r == w[1]
           m == p.member[r]
           n == AdmitStartup(m)
           q == With(p, r, n)
<1>0. /\ Sound(p, p, s, 0) /\ Served(p) /\ r \in Roles /\ m \in Members /\ p \in PoolStates
  BY Zenon DEF Good, Sound, Workers, PoolStates
<1> HIDE DEF r
<1>1. CASE ~Holds(p, w, {"StartupRequested", "Starting"})
  BY <1>1 DEF AcceptStartup
<1>2. CASE Holds(p, w, {"StartupRequested", "Starting"})
  <2>1. m.at \in {"StartupRequested", "Starting"} /\ ~Busy(p, r)
    BY <1>2 DEF Holds, Busy, r
  <2>2. n \in Members /\ n.at \in {"Starting", "Idle"}
    <3>1. {"Starting", "Idle"} \subseteq States
      BY Names
    <3>2. QED BY <1>0, <3>1 DEF AdmitStartup, Members
  <2>3. /\ q \in PoolStates /\ q.member = [p.member EXCEPT ![r] = n] /\ q.mode = p.mode
        /\ q.told = p.told /\ q.backlog = p.backlog /\ q.charges = p.charges
    BY Zenon, <1>0, <2>2, WithType
  <2> HIDE DEF n, q
  <2>4. q.member[r] = n /\ \A t \in Roles : t # r => q.member[t] = p.member[t]
    BY <1>0, <2>3 DEF PoolStates
  <2>5. Updates(p, q, 0)
    BY Zenon, <1>0, <2>1, <2>2, <2>3, <2>4, FiniteRoles DEF Updates, Alike, Occupied
  <2>6. Sound(p, q, s, 0)
    BY <1>0, <2>5, Update
  <2>7. Good(p, AuthorizeWaiting(IF q.member[r].at = "Idle" THEN FillFifo(q) ELSE q), s)
    <3>1. q.member[r].at = "Idle" => Good(p, FillFifo(q), s)
      BY <1>0, <2>6, FilledServed
    <3>2. q.member[r].at # "Idle" => Good(p, q, s)
      BY Zenon, <1>0, <2>2, <2>3, <2>4, <2>6, StillServed DEF Good
    <3>3. QED BY <3>1, <3>2, Authorized
  <2>8. Good(p, StoppedStartup(p, r), s)
    BY <1>0, <2>1, PreReadyStopGood DEF StoppedStartup
  <2>9. Good(p, UnusableStartup(p, r), s)
    <3>1. Good(p, BeginShutdown(p), s)
      BY <1>0, ShutdownEnds DEF Good, Served
    <3>2. Good(p, RequestWorkerShutdown(p, r), s)
      BY Zenon, <1>0, <2>1, Exempt, WorkerShutdownRequested
    <3>3. QED BY <3>1, <3>2, Authorized DEF UnusableStartup
  <2>10. QED BY Zenon, <1>2, <2>7, <2>8, <2>9 DEF AcceptStartup, r, n, q
<1>3. QED BY <1>1, <1>2

\* A busy worker's job is done.
LEMMA CompletionGood ==
    ASSUME Counting, NEW p, NEW s, Good(p, p, s), NEW r \in Roles, Busy(p, r)
    PROVE  Good(p, CompleteAssignment(p, r), s)
<1> DEFINE m == p.member[r]
           q == Deliver(p, m.job, "Completed")
           n == At(m, "Idle", NoSub)
<1>1. Sound(p, p, s, 0) /\ m \in Members /\ "Completed" \in Terminal
  BY Zenon DEF Good, Sound, PoolStates, Terminal
<1>2. q \in PoolStates /\ Sound(p, q, s, r)
  BY Zenon, <1>1, JobEnded
<1> HIDE DEF q
<1>3. n \in Members /\ n.at = "Idle"
  BY <1>1, Records
<1> HIDE DEF n
<1> DEFINE u == With(q, r, n)
<1>4. Sound(p, u, s, 0)
  BY <1>2, <1>3, Replaced DEF Occupied
<1>5. u.member[r] = n
  BY <1>2 DEF With, PoolStates
<1> HIDE DEF u
<1>6. Good(p, FillFifo(u), s)
  BY <1>3, <1>4, <1>5, FilledServed
<1>7. Good(p, RecoverWorker(q, r), s)
  BY <1>2, Recovered
<1>8. QED BY <1>6, <1>7 DEF CompleteAssignment, q, n, u

\* A busy worker stopped before its job was done.
LEMMA InterruptionGood ==
    ASSUME Counting, NEW p0, NEW p, NEW s, Sound(p0, p, s, 0), NEW r \in Roles, Busy(p, r),
           \A t \in Roles : Busy(p, t) => p.member[t].job = p0.member[t].job
    PROVE  Good(p0, InterruptAssignment(p, r), s)
<1> DEFINE j == p.member[r].job
           d == Deliver(p, j, "ReturnedAssigned")
           b == Requeue(p, j)
<1>1. Sound(p0, d, s, r)
  <2>1. "ReturnedAssigned" \in Terminal
    BY DEF Terminal
  <2>2. QED BY <2>1, JobEnded
<1>2. Sound(p0, b, s, r)
  BY Requeued
<1> HIDE DEF d, b
<1>3. Good(p0, RecoverWorker(d, r), s) /\ Good(p0, RecoverWorker(b, r), s)
  BY <1>1, <1>2, Recovered
<1>4. InterruptAssignment(p, r) =
         RecoverWorker(IF p.conf.interruption = "Fail" THEN d ELSE b, r)
  BY DEF InterruptAssignment, d, b
<1>5. QED BY <1>3, <1>4

\* The delivery of an assignment is confirmed.
LEMMA ReceiptGood ==
    ASSUME Counting, NEW p, NEW s, Good(p, p, s), NEW w \in Workers, NEW j
    PROVE  Good(p, AcceptAssignmentReceipt(p, w, j), s)
<1> DEFINE r == w[1]
           m == p.member[r]
           n == [m EXCEPT !.sub = "Accepted"]
           verdict == ReceiptVerdict(m)
<1>0. Sound(p, p, s, 0) /\ r \in Roles /\ m \in Members
  BY Zenon DEF Good, Sound, Workers, PoolStates
<1> HIDE DEF r, verdict
<1>1. CASE ~(Holds(p, w, {"Busy"}) /\ m.job = j)
  BY <1>1 DEF AcceptAssignmentReceipt, r
<1>2. CASE Holds(p, w, {"Busy"}) /\ m.job = j
  <2>1. m.at = "Busy" /\ Busy(p, r)
    BY <1>2 DEF Holds, Busy, r
  <2>2. Good(p, With(p, r, n), s)
    <3>1. "Accepted" \in Subs
      BY Names
    <3>2. n \in Members /\ n.at = m.at /\ n.job = m.job
      BY <1>0, <3>1, MemberTypes
    <3> HIDE DEF n
    <3>3. Alike(m, n)
      BY <3>2 DEF Alike, Occupied
    <3>4. QED BY <1>0, <3>2, <3>3, Changed
  <2>3. Good(p, CompleteAssignment(p, r), s)
    BY <1>0, <2>1, CompletionGood
  <2>4. Good(p, InterruptAssignment(p, r), s)
    BY <1>0, <2>1, InterruptionGood
  <2>5. AcceptAssignmentReceipt(p, w, j) =
           CASE verdict = "Waiting" -> With(p, r, n)
             [] verdict = "JobCompleted" -> CompleteAssignment(p, r)
             [] verdict = "JobInterrupted" -> InterruptAssignment(p, r)
             [] OTHER -> p
    BY <1>2 DEF AcceptAssignmentReceipt, r, verdict
  <2> HIDE DEF n
  <2>6. QED BY <2>2, <2>3, <2>4, <2>5
<1>3. QED BY <1>1, <1>2

\* A worker refuses a job.
LEMMA RejectionGood ==
    ASSUME Counting, NEW p, NEW s, Good(p, p, s), NEW w \in Workers, NEW j
    PROVE  Good(p, RejectAssignmentDelivery(p, w, j), s)
<1> DEFINE r == w[1]
           m == p.member[r]
           verdict  == RejectionVerdict(m)
           stopped  == m.stop # NoStop
           returned == IF verdict = "JobReturned" THEN Requeue(p, j)
                       ELSE Deliver(p, j, "ReturnedAssigned")
           spent    == [returned EXCEPT !.shutdowns = @ - 1]
           handled  == IF stopped THEN RecoverWorker(spent, r)
                       ELSE RequestWorkerShutdown(returned, r)
<1>0. Sound(p, p, s, 0) /\ Served(p) /\ r \in Roles /\ p \in PoolStates
  BY DEF Good, Sound, Workers
<1> HIDE DEF r, verdict, stopped
<1>1. CASE ~(Holds(p, w, {"Busy"}) /\ m.job = j)
  BY <1>1 DEF RejectAssignmentDelivery, r
<1>2. CASE Holds(p, w, {"Busy"}) /\ m.job = j
  <2>1. Busy(p, r) /\ j = p.member[r].job
    BY <1>2 DEF Holds, Busy, r
  <2>2. returned \in PoolStates /\ Sound(p, returned, s, r)
    <3>1. "ReturnedAssigned" \in Terminal
      BY DEF Terminal
    <3>2. LET d == Deliver(p, j, "ReturnedAssigned") IN d \in PoolStates /\ Sound(p, d, s, r)
      BY Zenon, <1>0, <2>1, <3>1, JobEnded
    <3>3. LET d == Requeue(p, j) IN d \in PoolStates /\ Sound(p, d, s, r)
      BY <1>0, <2>1, Requeued
    <3>4. QED BY <3>2, <3>3
  <2> HIDE DEF returned
  <2>3. Good(p, RecoverWorker(spent, r), s)
    <3>1. Alters(returned, spent)
      BY Zenon, <2>2, Alterations
    <3> HIDE DEF spent
    <3>2. QED BY <1>0, <2>2, <3>1, Altered, Recovered
  <2> HIDE DEF spent
  <2> DEFINE asked == RequestWorkerShutdown(returned, r)
  <2>4. Sound(p, asked, s, 0) /\ asked.member[r].at = "Stopping"
    BY Zenon, <1>0, <2>2, WorkerShutdownRequested
  <2> HIDE DEF asked
  <2>5. Good(p, FillFifo(asked), s)
    BY <1>0, <2>4, FilledServed
  <2>6. Sound(p, handled, s, 0) /\ (stopped => Good(p, handled, s))
    BY <2>3, <2>4 DEF Good, asked
  <2>7. ~stopped => handled = asked
    BY DEF asked
  <2> HIDE DEF handled
  <2>8. Good(p, ConflictingCompletion(handled), s)
    <3>1. Good(p, BeginShutdown(handled), s)
      BY <2>6, ShutdownEnds DEF Good, Served
    <3>2. handled.mode # "Operating" => Good(p, handled, s)
      BY <2>6 DEF Good, Served
    <3>3. QED BY <3>1, <3>2 DEF ConflictingCompletion
  <2>9. Good(p, BeginShutdown(p), s)
    BY <1>0, ShutdownEnds DEF Good, Served
  <2> DEFINE less == [p EXCEPT !.shutdowns = @ - 1]
  <2>10. Good(p, less, s)
    <3>1. Alters(p, less)
      BY Zenon, <1>0, Alterations
    <3> HIDE DEF less
    <3>2. QED BY <3>1, GoodAltered
  <2>11. RejectAssignmentDelivery(p, w, j) =
            IF p.shutdowns = 0 THEN BeginShutdown(p)
            ELSE CASE verdict = "Unexpected" -> less
                   [] verdict = "JobReturned" -> IF stopped THEN handled ELSE FillFifo(handled)
                   [] OTHER -> ConflictingCompletion(handled)
    BY <1>2 DEF RejectAssignmentDelivery, r, verdict, stopped, returned, spent, handled
  <2> HIDE DEF less
  <2>12. QED BY <2>5, <2>6, <2>7, <2>8, <2>9, <2>10, <2>11
<1>3. QED BY <1>1, <1>2

\* A completion arrives.
LEMMA CompletedGood ==
    ASSUME Counting, NEW p, NEW s, Good(p, p, s), NEW w \in Workers, NEW j
    PROVE  Good(p, AcceptCompletion(p, w, j), s)
<1> DEFINE r == w[1]
           m == p.member[r]
           n == HoldCompletion(m)
           verdict == CompletionVerdict(m)
<1>0. Sound(p, p, s, 0) /\ r \in Roles /\ m \in Members
  BY Zenon DEF Good, Sound, Workers, PoolStates
<1> HIDE DEF r, verdict
<1>1. CASE ~(Holds(p, w, {"Busy"}) /\ m.job = j)
  BY <1>1 DEF AcceptCompletion, r
<1>2. CASE Holds(p, w, {"Busy"}) /\ m.job = j
  <2>1. m.at = "Busy" /\ Busy(p, r)
    BY <1>2 DEF Holds, Busy, r
  <2>2. Good(p, With(p, r, n), s)
    <3>1. {"CompletionHasPriority", "WorkerExitThenCompletion"} \subseteq Subs
      BY Names
    <3>2. \E sub \in Subs : n = [m EXCEPT !.sub = sub]
      BY <1>0, <3>1 DEF HoldCompletion, Members
    <3>3. n \in Members /\ n.at = m.at /\ n.job = m.job
      BY <1>0, <3>2, MemberTypes
    <3> HIDE DEF n
    <3>4. Alike(m, n)
      BY <3>3 DEF Alike, Occupied
    <3>5. QED BY <1>0, <3>3, <3>4, Changed
  <2>3. Good(p, CompleteAssignment(p, r), s)
    BY <1>0, <2>1, CompletionGood
  <2>4. AcceptCompletion(p, w, j) =
           CASE verdict = "Waiting" -> With(p, r, n)
             [] verdict = "JobCompleted" -> CompleteAssignment(p, r)
             [] OTHER -> p
    BY Zenon, <1>2 DEF AcceptCompletion, r, verdict
  <2> HIDE DEF n
  <2>5. QED BY <2>2, <2>3, <2>4
<1>3. QED BY <1>1, <1>2

\* The exit of a busy worker.
LEMMA AssignedStopGood ==
    ASSUME Counting,
           NEW p, NEW s, Good(p, p, s), NEW r \in Roles, Busy(p, r), NEW kind \in Stops,
           NEW now \in Nat
    PROVE  Good(p, AssignedWorkerStop(p, r, kind, now), s)
<1> DEFINE m == p.member[r]
           n == HoldExit(m, kind, now)
           q == With(p, r, Stopped(m, kind, now))
           verdict == ExitVerdict(m)
<1>0. Sound(p, p, s, 0) /\ m \in Members /\ p \in PoolStates
  BY Zenon DEF Good, Sound, PoolStates
<1>1. Good(p, With(p, r, n), s)
  <2> DEFINE k == Stopped(m, kind, now)
  <2>1. k \in Members /\ k.at = m.at /\ k.job = m.job
    BY <1>0, MemberTypes
  <2>2. n = [k EXCEPT !.sub = IF @ = "AwaitingReceipt" THEN "WorkerExitHasPriority" ELSE @]
    BY DEF HoldExit
  <2>3. "WorkerExitHasPriority" \in Subs
    BY Names
  <2> HIDE DEF k, n
  <2>4. \E sub \in Subs : n = [k EXCEPT !.sub = sub]
    BY <2>1, <2>2, <2>3 DEF Members
  <2>5. n \in Members /\ n.at = m.at /\ n.job = m.job
    BY <2>1, <2>4, MemberTypes
  <2>6. Alike(m, n)
    BY <2>5 DEF Alike, Occupied
  <2>7. QED BY <2>5, <2>6, Changed
<1>2. Good(p, InterruptAssignment(q, r), s)
  <2>1. /\ Good(p, q, s) /\ q.member[r].at = m.at /\ q.member[r].job = m.job
    <3>1. ExitNoted(p, p, q, r, s)
      BY <1>0, StopRecorded
    <3> HIDE DEF q
    <3>2. QED BY <3>1 DEF ExitNoted
  <2>2. \A t \in Roles : t # r => q.member[t] = p.member[t]
    BY <1>0 DEF With, PoolStates
  <2> HIDE DEF q
  <2>3. Busy(q, r) /\ \A t \in Roles : Busy(q, t) => q.member[t].job = p.member[t].job
    BY Zenon, <2>1, <2>2 DEF Busy
  <2>4. QED BY <2>1, <2>3, InterruptionGood DEF Good
<1>3. AssignedWorkerStop(p, r, kind, now) =
         CASE verdict = "Waiting" -> With(p, r, n)
           [] verdict = "JobInterrupted" -> InterruptAssignment(q, r)
           [] OTHER -> p
  BY DEF AssignedWorkerStop
<1> HIDE DEF n, q, verdict
<1>4. QED BY <1>1, <1>2, <1>3

\* The exit of a worker that was asked to stop.
LEMMA StoppingStopGood ==
    ASSUME Counting,
           NEW p, NEW s, Good(p, p, s), NEW r \in Roles, p.member[r].at = "Stopping",
           NEW kind \in Stops, NEW now \in Nat
    PROVE  Good(p, StoppingWorkerStop(p, r, kind, now), s)
<1> DEFINE m == p.member[r]
           k == Stopped(m, kind, now)
           q == With(p, r, Stopped(p.member[r], kind, now))
           join == JoinStopped(m.sub)
           n == [k EXCEPT !.sub = "AwaitingSettlement"]
<1>0. Sound(p, p, s, 0) /\ m \in Members
  BY Zenon DEF Good, Sound, PoolStates
<1>1. Good(p, RecoverWorker(q, r), s)
  <2>1. Good(p, q, s) /\ q.member[r].at = p.member[r].at
    <3>1. ExitNoted(p, p, q, r, s)
      BY StopRecorded
    <3> HIDE DEF q
    <3>2. QED BY <3>1 DEF ExitNoted
  <2> HIDE DEF q
  <2>2. QED BY <2>1, PreReadyStopGood DEF Good, Busy
<1>2. Good(p, With(p, r, n), s)
  <2>1. k \in Members /\ k.at = m.at /\ k.job = m.job
    BY <1>0, MemberTypes
  <2>2. "AwaitingSettlement" \in Subs
    BY Names
  <2> HIDE DEF k
  <2>3. n \in Members /\ n.at = m.at /\ n.job = m.job
    BY <2>1, <2>2, MemberTypes
  <2> HIDE DEF n
  <2>4. Alike(m, n)
    BY <2>3 DEF Alike, Occupied
  <2>5. QED BY Zenon, <2>3, <2>4, Changed
<1>3. StoppingWorkerStop(p, r, kind, now) =
         CASE join = "Done" -> RecoverWorker(q, r)
           [] join = "AwaitingSettlement" -> With(p, r, [k EXCEPT !.sub = join])
           [] OTHER -> p
  BY DEF StoppingWorkerStop
<1> HIDE DEF join, q, k
<1>4. QED BY <1>1, <1>2, <1>3

\* The exit of a worker.
LEMMA WorkerStopGood ==
    ASSUME Counting,
           NEW p, NEW s, Good(p, p, s), NEW w \in Workers, NEW kind \in Stops, NEW now \in Nat
    PROVE  Good(p, AcceptWorkerStop(p, w, kind, now), s)
<1> DEFINE r == w[1]
           m == p.member[r]
           q == With(p, r, Stopped(m, kind, now))
<1>0. r \in Roles
  BY DEF Workers
<1> HIDE DEF r
<1>1. Good(p, q, s) /\ q.member[r].at = m.at
  <2>1. ExitNoted(p, p, q, r, s)
    BY <1>0, StopRecorded
  <2> HIDE DEF q
  <2>2. QED BY <2>1 DEF ExitNoted
<1>2. m.at # "Busy" => Good(p, RecoverWorker(q, r), s)
                       /\ Good(p, ContinueAfterPreReadyStop(q, r), s)
  <2> HIDE DEF q
  <2>1. QED BY Zenon, <1>0, <1>1, PreReadyStopGood DEF Good, Busy
<1>3. m.at = "Busy" => Good(p, AssignedWorkerStop(p, r, kind, now), s)
  BY <1>0, AssignedStopGood DEF Busy
<1>4. m.at = "Stopping" => Good(p, StoppingWorkerStop(p, r, kind, now), s)
  BY <1>0, StoppingStopGood
<1>5. AcceptWorkerStop(p, w, kind, now) =
         IF ~Current(p, w) THEN p
         ELSE CASE m.at \in {"Creating", "Initializing", "StartupRequested", "Starting"} ->
                     IF m.stop = NoStop THEN q ELSE p
                [] m.at = "WaitingForStartup" -> ContinueAfterPreReadyStop(q, r)
                [] m.at = "Idle" -> RecoverWorker(q, r)
                [] m.at = "Busy" -> AssignedWorkerStop(p, r, kind, now)
                [] m.at = "Stopping" -> StoppingWorkerStop(p, r, kind, now)
                [] OTHER -> p
  BY DEF AcceptWorkerStop, r
<1> HIDE DEF q
<1>6. QED BY <1>1, <1>2, <1>3, <1>4, <1>5

\* The settlement of a shutdown request.
LEMMA ShutdownSettledGood ==
    ASSUME Counting, NEW p, NEW s, Good(p, p, s), NEW w \in Workers
    PROVE  Good(p, AcceptWorkerShutdown(p, w), s)
<1> DEFINE r == w[1]
           m == p.member[r]
           n == [m EXCEPT !.sub = "AwaitingStop"]
           join == JoinSettled(m.sub)
<1>0. Sound(p, p, s, 0) /\ r \in Roles /\ m \in Members
  BY Zenon DEF Good, Sound, Workers, PoolStates
<1> HIDE DEF r, join
<1>1. CASE ~Holds(p, w, {"Stopping"})
  BY <1>1 DEF AcceptWorkerShutdown
<1>2. CASE Holds(p, w, {"Stopping"})
  <2>1. m.at = "Stopping" /\ ~Busy(p, r)
    BY <1>2 DEF Holds, Busy, r
  <2>2. Good(p, RecoverWorker(p, r), s)
    BY <1>0, <2>1, PreReadyStopGood
  <2>3. Good(p, With(p, r, n), s)
    <3>1. "AwaitingStop" \in Subs
      BY Names
    <3>2. n \in Members /\ n.at = m.at /\ n.job = m.job
      BY <1>0, <3>1, MemberTypes
    <3> HIDE DEF n
    <3>3. Alike(m, n)
      BY <3>2 DEF Alike, Occupied
    <3>4. QED BY <1>0, <3>2, <3>3, Changed
  <2>4. AcceptWorkerShutdown(p, w) =
           CASE join = "Done" -> RecoverWorker(p, r)
             [] join = "AwaitingStop" -> With(p, r, [m EXCEPT !.sub = join])
             [] OTHER -> p
    BY <1>2 DEF AcceptWorkerShutdown, r, join
  <2>5. QED BY <2>2, <2>3, <2>4
<1>3. QED BY <1>1, <1>2

\* A preparation is begun or refused.
LEMMA PreparationStartGood ==
    ASSUME Counting, NEW p, NEW s, Good(p, p, s), NEW w \in Workers, NEW accepted
    PROVE  Good(p, AcceptWorkerPreparationStart(p, w, accepted), s)
<1> DEFINE r == w[1]
           m == p.member[r]
           n == [m EXCEPT !.sub = "Started"]
           start == AcceptPreparationStart(m, accepted)
           q == [p EXCEPT !.source = "Available"]
<1>0. Sound(p, p, s, 0) /\ p \in PoolStates /\ r \in Roles /\ m \in Members
  BY Zenon DEF Good, Sound, Workers, PoolStates
<1> HIDE DEF r
<1>1. CASE ~Current(p, w) \/ start = "Unrelated"
  BY <1>1 DEF AcceptWorkerPreparationStart, r
<1>2. CASE ~(~Current(p, w) \/ start = "Unrelated")
  <2>1. m.at = "Preparing" /\ ~Busy(p, r)
    BY <1>2 DEF AcceptPreparationStart, Busy
  <2>2. Good(p, With(p, r, n), s)
    <3>1. "Started" \in Subs
      BY Names
    <3>2. n \in Members /\ n.at = m.at /\ n.job = m.job
      BY <1>0, <3>1, MemberTypes
    <3> HIDE DEF n
    <3>3. Alike(m, n)
      BY <3>2 DEF Alike, Occupied
    <3>4. QED BY <1>0, <3>2, <3>3, Changed
  <2>3. Good(p, RetireRoleAfterError(q, r), s)
    <3>1. Sound(p, p, s, r)
      BY <1>0, <2>1, Exempt
    <3>2. Alters(p, q)
      BY Zenon, <1>0, Alterations
    <3> HIDE DEF q
    <3>3. QED BY <1>0, <3>1, <3>2, Altered, RoleRetired
  <2>4. QED BY <1>2, <2>2, <2>3 DEF AcceptWorkerPreparationStart, r
<1>3. QED BY <1>1, <1>2

\* The source comes back.
LEMMA PreparationReturnGood ==
    ASSUME Counting, NEW p, NEW s, Good(p, p, s), NEW w \in Workers, NEW prepared
    PROVE  Good(p, AcceptWorkerPreparationReturn(p, w, prepared), s)
<1> DEFINE r      == w[1]
           m      == p.member[r]
           delay  == Calculate(p.conf.release, m.n)
           q      == [p EXCEPT !.source = "Available"]
           paid   == [q EXCEPT !.charges = Charged(@, RestartLimit, m.since, 1)]
           n      == At(m, "Scheduling", NoSub)
           timed  == [With(paid, r, n) EXCEPT !.timers = @ - 1]
           return == AcceptPreparationReturn(m, prepared)
           failed == \/ return = "Failed"
                     \/ ~Admits(p.charges, RestartLimit, m.since, 1)
                     \/ delay = Overflow
                     \/ delay = 0 /\ p.creations = 0
                     \/ delay > 0 /\ p.timers = 0
<1>0. Sound(p, p, s, 0) /\ p \in PoolStates /\ r \in Roles /\ m \in Members /\ Served(p)
  BY Zenon DEF Good, Sound, Workers, PoolStates
<1> HIDE DEF r
<1>1. CASE ~Current(p, w) \/ return = "Unrelated"
  BY <1>1 DEF AcceptWorkerPreparationReturn, r
<1>2. CASE ~(~Current(p, w) \/ return = "Unrelated")
  <2>1. m.at = "Preparing" /\ ~Busy(p, r)
    BY <1>2 DEF AcceptPreparationReturn, Busy
  <2>2. Alters(p, q) /\ Sound(p, q, s, r)
    <3>1. Sound(p, p, s, r)
      BY <1>0, <2>1, Exempt
    <3>2. Alters(p, q)
      BY Zenon, <1>0, Alterations
    <3> HIDE DEF q
    <3>3. QED BY <3>1, <3>2, Altered
  <2> HIDE DEF q
  <2>3. Good(p, RetireRoleAfterError(q, r), s)
    BY <1>0, <2>2, RoleRetired
  <2>4. ASSUME Admits(p.charges, RestartLimit, m.since, 1)
        PROVE  /\ Good(p, PrepareNextWaiting(BeginReplacement(paid, r)), s)
               /\ Good(p, PrepareNextWaiting(Send(timed, "schedule", r, NoJob)), s)
    <3>1. /\ Sound(p, paid, s, r) /\ paid.member = p.member /\ paid.backlog = p.backlog
          /\ paid.mode = p.mode
      <4>1. q.charges = p.charges /\ m.since \in Nat
        BY <1>0, <2>2 DEF Alters, Members
      <4>2. /\ Sound(p, paid, s, r) /\ paid.member = q.member /\ paid.backlog = q.backlog
            /\ paid.mode = q.mode
        BY <2>2, <2>4, <4>1, Paid
      <4>3. QED BY <2>2, <4>2 DEF Alters
    <3> HIDE DEF paid
    <3>2. Served(paid)
      BY <1>0, <3>1, StillServed
    <3>3. Good(p, BeginReplacement(paid, r), s)
      BY <1>0, <3>1, <3>2, ReplacementBegun
    <3>4. n \in Members /\ n.at = "Scheduling" /\ n.at # "Busy" /\ ~Occupied(n)
      BY <1>0, Records DEF Occupied
    <3> HIDE DEF n
    <3>5. Alters(With(paid, r, n), timed)
      <4> DEFINE u == With(paid, r, n)
      <4>1. u \in PoolStates
        BY Zenon, <1>0, <3>1, <3>4, WithType DEF Sound
      <4> HIDE DEF u
      <4>2. Alters(u, [u EXCEPT !.timers = @ - 1])
        BY Zenon, <4>1, Alterations
      <4>3. QED BY <4>2 DEF u
    <3> HIDE DEF timed
    <3> DEFINE u == Send(timed, "schedule", r, NoJob)
    <3>6. Sound(p, u, s, 0) /\ Moves(paid, u, r, n)
      <4>1. "schedule" \in Ops
        BY DEF Ops
      <4>2. QED BY Zenon, <1>0, <3>1, <3>4, <3>5, <4>1, Requested
    <3> HIDE DEF u
    <3>7. Good(p, u, s)
      BY <1>0, <3>2, <3>4, <3>6, GoodRequested
    <3>8. QED BY <3>3, <3>7, GoodPrepared DEF u
  <2>5. AcceptWorkerPreparationReturn(p, w, prepared) =
           IF failed THEN RetireRoleAfterError(q, r)
           ELSE IF delay = 0 THEN PrepareNextWaiting(BeginReplacement(paid, r))
           ELSE PrepareNextWaiting(Send(timed, "schedule", r, NoJob))
    BY <1>2 DEF AcceptWorkerPreparationReturn, r, q
  <2>6. ~failed => Admits(p.charges, RestartLimit, m.since, 1)
    OBVIOUS
  <2> HIDE DEF failed, paid, timed, delay
  <2>7. QED BY <2>3, <2>4, <2>5, <2>6
<1>3. QED BY <1>1, <1>2

\* The timer of a restart is set, or not.
LEMMA RestartScheduleGood ==
    ASSUME Counting, NEW p, NEW s, Good(p, p, s), NEW w \in Workers, NEW accepted
    PROVE  Good(p, AcceptRestartSchedule(p, w, accepted), s)
<1> DEFINE r == w[1]
           m == p.member[r]
           n == At(m, "WaitingForTimer", NoSub)
           admit == AdmitRestartSchedule(m, accepted)
<1>0. Sound(p, p, s, 0) /\ r \in Roles /\ m \in Members
  BY Zenon DEF Good, Sound, Workers, PoolStates
<1> HIDE DEF r
<1>1. CASE ~Current(p, w) \/ admit = "Unrelated"
  BY <1>1 DEF AcceptRestartSchedule, r
<1>2. CASE ~(~Current(p, w) \/ admit = "Unrelated")
  <2>1. m.at = "Scheduling" /\ ~Busy(p, r)
    BY <1>2 DEF AdmitRestartSchedule, Busy
  <2>2. Good(p, With(p, r, n), s)
    <3>1. n \in Members /\ n.at = "WaitingForTimer"
      BY <1>0, Records
    <3> HIDE DEF n
    <3>2. Alike(m, n)
      BY <2>1, <3>1 DEF Alike, Occupied
    <3>3. QED BY <1>0, <3>1, <3>2, Changed
  <2>3. Good(p, RetireRoleAfterError(p, r), s)
    BY <1>0, <2>1, Exempt, RoleRetired
  <2>4. QED BY <1>2, <2>2, <2>3 DEF AcceptRestartSchedule, r
<1>3. QED BY <1>1, <1>2

\* The timer of a restart elapses.
LEMMA RestartTimerGood ==
    ASSUME Counting, NEW p, NEW s, Good(p, p, s), NEW w \in Workers
    PROVE  Good(p, AcceptRestartTimer(p, w), s)
<1> DEFINE r == w[1]
<1>0. Sound(p, p, s, 0) /\ Served(p) /\ r \in Roles
  BY DEF Good, Workers
<1>1. CASE ~(Current(p, w) /\ AdmitsRestartTimer(p.member[w[1]]))
  BY <1>1 DEF AcceptRestartTimer
<1>2. CASE Current(p, w) /\ AdmitsRestartTimer(p.member[w[1]])
  <2>1. Sound(p, p, s, r)
    BY <1>0, <1>2, Exempt DEF AdmitsRestartTimer, Busy
  <2>2. Good(p, RetireRoleAfterError(p, r), s) /\ Good(p, BeginReplacement(p, r), s)
    BY <1>0, <2>1, RoleRetired, ReplacementBegun
  <2>3. QED BY <1>2, <2>2 DEF AcceptRestartTimer
<1>3. QED BY <1>1, <1>2

-----------------------------------------------------------------------------
(* The handlers while Draining.                                              *)

\* A state the pool may be in once it no longer operates.
Dry(p0, q, s) == Sound(p0, q, s, 0) /\ q.mode # "Operating"

\* The pool goes on draining, or has ended.
LEMMA Continued ==
    ASSUME Counting, NEW p0, NEW p, NEW s, Dry(p0, p, s)
    PROVE  /\ Dry(p0, ContinueDraining(p), s)
           /\ Dry(p0, [p EXCEPT !.mode = "ForcedRetirement"], s)
<1>1. \A v \in {"ForcedRetirement", "Stopped"} : Dry(p0, [p EXCEPT !.mode = v], s)
  <2>1. SUFFICES ASSUME NEW v \in {"ForcedRetirement", "Stopped"}
                 PROVE  Dry(p0, [p EXCEPT !.mode = v], s)
    OBVIOUS
  <2> DEFINE q == [p EXCEPT !.mode = v]
  <2>2. p \in PoolStates /\ Sound(p0, p, s, 0) /\ 0 \notin Roles
    BY FiniteRoles DEF Dry, Sound
  <2>3. /\ q \in PoolStates /\ q.told = p.told /\ q.backlog = p.backlog
        /\ q.charges = p.charges /\ q.member = p.member /\ q.mode = v
    BY <2>2 DEF PoolStates
  <2> HIDE DEF q
  <2>4. Updates(p, q, 0)
    BY <2>2, <2>3 DEF Updates, Alike
  <2>5. QED BY <2>2, <2>3, <2>4, Update DEF Dry, q
<1>2. QED BY <1>1 DEF ContinueDraining

\* A role's record changes.
LEMMA DryChanged ==
    ASSUME Counting,
           NEW p0, NEW p, NEW s, Dry(p0, p, s), NEW r \in Roles, NEW m \in Members,
           Alike(p.member[r], m)
    PROVE  Dry(p0, With(p, r, m), s) /\ Dry(p0, ContinueDraining(With(p, r, m)), s)
<1> DEFINE q == With(p, r, m)
<1>1. Sound(p0, p, s, 0) /\ p \in PoolStates /\ 0 \notin Roles
  BY FiniteRoles DEF Dry, Sound
<1>2. /\ q \in PoolStates /\ q.member = [p.member EXCEPT ![r] = m]
      /\ q.told = p.told /\ q.backlog = p.backlog /\ q.charges = p.charges /\ q.mode = p.mode
  BY Zenon, <1>1, WithType
<1> HIDE DEF q
<1>3. /\ q.member[r] = m /\ \A t \in Roles : t # r => q.member[t] = p.member[t]
  BY <1>1, <1>2 DEF PoolStates
<1>4. Updates(p, q, 0)
  BY <1>1, <1>2, <1>3 DEF Updates, Alike
<1>5. Dry(p0, q, s)
  BY <1>1, <1>2, <1>4, Update DEF Dry
<1>6. QED BY Zenon, <1>5, Continued DEF q

\* A free role is let go of, and the source has come back.
LEMMA DryDrained ==
    ASSUME Counting,
           NEW p0, NEW p, NEW s, Dry(p0, p, s), NEW r \in Roles, p.member[r].at # "Busy"
    PROVE  LET q == With(p, r, Drained(p.member[r]))
           IN  /\ Dry(p0, ContinueDraining(q), s)
               /\ Dry(p0, ContinueDraining([q EXCEPT !.source = "Available"]), s)
<1> DEFINE n == Drained(p.member[r])
           q == With(p, r, n)
           u == [q EXCEPT !.source = "Available"]
<1>1. p.member[r] \in Members
  BY DEF Dry, Sound, PoolStates
<1>2. n \in Members /\ n.at = "Drained"
  BY <1>1, Records
<1>3. Alike(p.member[r], n)
  BY <1>2 DEF Alike, Occupied
<1> HIDE DEF n
<1>4. Dry(p0, q, s)
  BY <1>2, <1>3, DryChanged
<1> HIDE DEF q
<1>5. Alters(q, u)
  BY Zenon, <1>4, Alterations DEF Dry, Sound
<1> HIDE DEF u
<1>6. Dry(p0, u, s)
  BY <1>4, <1>5, Altered DEF Dry, Alters
<1>7. QED BY Zenon, <1>4, <1>6, Continued DEF u, q, n

\* Creations settle while the pool drains.
LEMMA DrainCreationsGood ==
    ASSUME Counting,
           NEW p, NEW s, Dry(p, p, s), NEW outcome, DOMAIN outcome \subseteq Workers
    PROVE  Dry(p, AcceptDrainCreations(p, outcome), s)
<1> DEFINE batch   == DOMAIN outcome
           running == {w \in batch : StillRuns(p.member[w[1]], outcome[w])}
           stopped == RetainWorkers(p, running)
           members == [r \in Roles |->
                          IF WorkerOf(p, r) \in batch
                          THEN AcceptCreation(p.member[r], outcome[WorkerOf(p, r)],
                                              WorkerOf(p, r) \in stopped)
                          ELSE p.member[r]]
           shutdowns == p.shutdowns - Cardinality(stopped)
           sent    == {Req("shutdown", {w}, NoJob) : w \in stopped}
           q == [p EXCEPT !.member = members, !.shutdowns = shutdowns, !.sent = sent]
<1>0. /\ Sound(p, p, s, 0) /\ p \in PoolStates /\ p.mode # "Operating" /\ 0 \notin Roles
      /\ \A r \in Roles : p.member[r] \in Members
  BY FiniteRoles DEF Dry, Sound, PoolStates
<1>1. CASE \E w \in batch : ~Holds(p, w, {"AwaitingCreation"})
  BY <1>1 DEF AcceptDrainCreations
<1>2. CASE \A w \in batch : Holds(p, w, {"AwaitingCreation"})
  <2>1. stopped \subseteq batch
    BY DEF RetainWorkers
  <2> HIDE DEF stopped
  <2>2. shutdowns \in Int
    <3> DEFINE f == [w \in stopped |-> w[1]]
    <3>1. \A w \in stopped : w[1] \in Roles /\ w = <<w[1], p.member[w[1]].n>>
      BY <1>2, <2>1 DEF Holds, Workers
    <3>2. f \in Injection(stopped, Roles)
      <4>1. \A v, w \in stopped : v[1] = w[1] => v = w
        BY <3>1
      <4>2. f \in [stopped -> Roles]
        BY <3>1
      <4>3. QED BY <4>1, <4>2 DEF Injection, IsInjective
    <3>3. IsFiniteSet(Roles)
      BY FiniteRoles
    <3> HIDE DEF f
    <3>4. IsFiniteSet(stopped)
      BY <3>2, <3>3, CountInjection
    <3>5. Cardinality(stopped) \in Nat
      BY <3>4, CountType
    <3>6. QED BY <1>0, <3>5 DEF PoolStates
  <2>3. sent \subseteq Requests
    BY <2>1, Names DEF Req, Requests, Ops
  <2>4. \A r \in Roles : \A o : \A requested \in BOOLEAN :
           /\ AcceptCreation(p.member[r], o, requested) \in Members
           /\ AcceptCreation(p.member[r], o, requested).at \in {"Established", "Departed"}
    <3>1. SUFFICES ASSUME NEW m \in Members, NEW requested \in BOOLEAN
                   PROVE  /\ RetireWorker(m, "StartupPlan", requested) \in Members
                          /\ RetireWorker(m, "StartupPlan", requested).at = "Established"
                          /\ Departed(m) \in Members /\ Departed(m).at = "Departed"
      BY <1>0, Zenon DEF AcceptCreation
    <3> DEFINE c == Cleared(m, "Established",
                            IF requested THEN "AwaitingBoth" ELSE "NotRequested")
    <3>2. "Established" \in States /\ {"AwaitingBoth", "NotRequested"} \subseteq Subs
      BY Names
    <3>3. c \in Members /\ c.at = "Established"
      BY <3>2, MemberTypes
    <3>4. RetireWorker(m, "StartupPlan", requested) = [c EXCEPT !.custody = "StartupPlan"]
      BY DEF RetireWorker
    <3>5. "StartupPlan" \in Custodies
      BY DEF Custodies
    <3> HIDE DEF c
    <3>6. /\ RetireWorker(m, "StartupPlan", requested) \in Members
          /\ RetireWorker(m, "StartupPlan", requested).at = "Established"
      BY <3>3, <3>4, <3>5 DEF Members
    <3>7. QED BY <3>6, Records
  <2>5. ASSUME NEW r \in Roles
        PROVE  /\ members[r] \in Members
               /\ \/ members[r] = p.member[r]
                  \/ /\ p.member[r].at = "AwaitingCreation"
                     /\ members[r].at \in {"Established", "Departed"}
    <3>1. (WorkerOf(p, r) \in stopped) \in BOOLEAN
      OBVIOUS
    <3>2. CASE WorkerOf(p, r) \in batch
      <4>1. p.member[r].at = "AwaitingCreation"
        BY <1>2, <3>2 DEF Holds, WorkerOf
      <4>2. QED BY Zenon, <2>4, <3>1, <3>2, <4>1
    <3>3. CASE WorkerOf(p, r) \notin batch
      BY Zenon, <1>0, <3>3
    <3>4. QED BY Zenon, <3>2, <3>3
  <2>6. members \in [Roles -> Members]
    BY <2>5
  <2> HIDE DEF members, sent, shutdowns
  <2>7. /\ q \in PoolStates /\ q.member = members /\ q.told = p.told
        /\ q.backlog = p.backlog /\ q.charges = p.charges /\ q.mode = p.mode
    BY Zenon, <1>0, <2>2, <2>3, <2>6 DEF PoolStates
  <2>8. AcceptDrainCreations(p, outcome) =
           IF stopped # running THEN [q EXCEPT !.mode = "ForcedRetirement"]
           ELSE ContinueDraining(q)
    BY <1>2 DEF AcceptDrainCreations, stopped, members, sent, shutdowns
  <2> HIDE DEF q
  <2>9. Updates(p, q, 0)
    BY <1>0, <2>5, <2>7 DEF Updates, Alike, Occupied
  <2>10. Dry(p, q, s)
    BY <1>0, <2>7, <2>9, Update DEF Dry
  <2>11. QED BY <2>8, <2>10, Continued
<1>3. QED BY <1>1, <1>2

\* What a retiring role makes of the facts about its worker.
LEMMA RetiringTypes ==
    ASSUME NEW m \in Members
    PROVE  /\ \A report : /\ AcceptWorkerInitialization(m, report) \in Members
                          /\ Alike(m, AcceptWorkerInitialization(m, report))
           /\ \A report : /\ AcceptWorkerStartup(m, report) \in Members
                          /\ Alike(m, AcceptWorkerStartup(m, report))
           /\ \A kind \in Stops : AcceptsExit(m) =>
                 AcceptExit(m, kind) \in Members /\ Alike(m, AcceptExit(m, kind))
           /\ AcceptsShutdownSettlement(m) =>
                 /\ AcceptShutdownSettlement(m) \in Members
                 /\ Alike(m, AcceptShutdownSettlement(m))
<1>1. {"AwaitingSettlement", "AwaitingStop"} \subseteq Subs
  BY Names
<1>2. {NoSub, "Starting"} \subseteq Custodies
  BY DEF Custodies
<1>3. \A c \in {NoSub, "Starting"} :
         /\ [m EXCEPT !.custody = c] \in Members /\ Alike(m, [m EXCEPT !.custody = c])
  BY <1>2 DEF Members, Alike, Occupied
<1>4. \A c \in {"AwaitingSettlement", "AwaitingStop"} :
         /\ [m EXCEPT !.sub = c] \in Members /\ Alike(m, [m EXCEPT !.sub = c])
  BY <1>1 DEF Members, Alike, Occupied
<1>5. LET n == [m EXCEPT !.sub = "AwaitingSettlement", !.custody = NoSub]
      IN  n \in Members /\ Alike(m, n)
  BY Zenon, <1>1, <1>2 DEF Members, Alike, Occupied
<1>6. m.at = "Established" => Departed(m) \in Members /\ Alike(m, Departed(m))
  BY Records DEF Alike, Occupied
<1>7. \A kind \in Stops :
         [m EXCEPT !.stop = kind] \in Members /\ Alike(m, [m EXCEPT !.stop = kind])
  BY DEF Members, Alike, Occupied
<1>8. Alike(m, m)
  BY DEF Alike
<1>9. \A report : /\ AcceptWorkerInitialization(m, report) \in Members
                  /\ Alike(m, AcceptWorkerInitialization(m, report))
  BY <1>3, <1>5, <1>6, <1>8 DEF AcceptWorkerInitialization
<1>10. \A report : /\ AcceptWorkerStartup(m, report) \in Members
                   /\ Alike(m, AcceptWorkerStartup(m, report))
  BY <1>3, <1>8 DEF AcceptWorkerStartup
<1>11. \A kind \in Stops : AcceptsExit(m) =>
          AcceptExit(m, kind) \in Members /\ Alike(m, AcceptExit(m, kind))
  BY <1>4, <1>6, <1>7 DEF AcceptsExit, AcceptExit
<1>12. AcceptsShutdownSettlement(m) =>
          AcceptShutdownSettlement(m) \in Members /\ Alike(m, AcceptShutdownSettlement(m))
  BY <1>4, <1>6 DEF AcceptsShutdownSettlement, AcceptShutdownSettlement
<1>13. QED BY <1>9, <1>10, <1>11, <1>12

\* Reports of initialization, startup, exit and shutdown while the pool drains.
LEMMA DrainReportsGood ==
    ASSUME Counting,
           NEW p, NEW s, Dry(p, p, s), NEW w \in Workers, NEW report, NEW kind \in Stops
    PROVE  /\ Dry(p, AcceptDrainInitialization(p, w, report), s)
           /\ Dry(p, AcceptDrainStartup(p, w, report), s)
           /\ Dry(p, AcceptDrainStop(p, w, kind), s)
           /\ Dry(p, AcceptDrainShutdown(p, w), s)
<1>1. w[1] \in Roles
  BY DEF Workers
<1>2. PICK r \in Roles : r = w[1]
  BY <1>1
<1>3. p.member[r] \in Members
  BY DEF Dry, Sound, PoolStates
<1>4. PICK m \in Members : m = p.member[r]
  BY <1>3
<1>5. \A n \in Members : Alike(m, n) => Dry(p, ContinueDraining(With(p, r, n)), s)
  BY <1>4, DryChanged
<1>6. Dry(p, AcceptDrainInitialization(p, w, report), s)
  BY Zenon, <1>2, <1>4, <1>5, RetiringTypes DEF AcceptDrainInitialization
<1>7. Dry(p, AcceptDrainStartup(p, w, report), s)
  BY Zenon, <1>2, <1>4, <1>5, RetiringTypes DEF AcceptDrainStartup
<1>8. Dry(p, AcceptDrainStop(p, w, kind), s)
  BY Zenon, <1>2, <1>4, <1>5, RetiringTypes DEF AcceptDrainStop
<1>9. Dry(p, AcceptDrainShutdown(p, w), s)
  BY Zenon, <1>2, <1>4, <1>5, RetiringTypes DEF AcceptDrainShutdown
<1>10. QED BY <1>6, <1>7, <1>8, <1>9

\* Preparations while the pool drains.
LEMMA DrainPreparationsGood ==
    ASSUME Counting, NEW p, NEW s, Dry(p, p, s), NEW w \in Workers, NEW accepted
    PROVE  /\ Dry(p, AcceptDrainPreparationStart(p, w, accepted), s)
           /\ Dry(p, AcceptDrainPreparationReturn(p, w), s)
<1>1. w[1] \in Roles
  BY DEF Workers
<1>2. PICK r \in Roles : r = w[1]
  BY <1>1
<1>3. p.member[r] \in Members
  BY DEF Dry, Sound, PoolStates
<1>4. CASE p.member[r].at # "AwaitingPreparation"
  BY <1>2, <1>4 DEF AcceptDrainPreparationStart, AcceptDrainPreparationReturn,
     AcceptRetiringPreparationStart, AcceptRetiringPreparationReturn
<1>5. CASE p.member[r].at = "AwaitingPreparation"
  <2> DEFINE n == [p.member[r] EXCEPT !.sub = "Started"]
  <2>1. "Started" \in Subs
    BY Names
  <2>2. n \in Members /\ Alike(p.member[r], n)
    BY <1>3, <2>1 DEF Members, Alike, Occupied
  <2>3. Dry(p, ContinueDraining(With(p, r, n)), s)
    BY <2>2, DryChanged
  <2>4. LET q == With(p, r, Drained(p.member[r]))
        IN  Dry(p, ContinueDraining([q EXCEPT !.source = "Available"]), s)
    BY <1>5, DryDrained
  <2>5. QED BY Zenon, <1>2, <2>3, <2>4 DEF AcceptDrainPreparationStart, AcceptDrainPreparationReturn
<1>6. QED BY <1>4, <1>5

\* Timers while the pool drains.
LEMMA DrainTimersGood ==
    ASSUME Counting, NEW p, NEW s, Dry(p, p, s), NEW ws \in SUBSET Workers, NEW accepted
    PROVE  /\ Dry(p, AcceptDrainSchedule(p, ws, accepted), s)
           /\ Dry(p, AcceptDrainDeadline(p, ws), s)
<1>1. \A d \in Deadlines : Dry(p, ContinueDraining([p EXCEPT !.deadline = d]), s)
  <2>1. SUFFICES ASSUME NEW d \in Deadlines
                 PROVE  Dry(p, ContinueDraining([p EXCEPT !.deadline = d]), s)
    BY Zenon
  <2> DEFINE q == [p EXCEPT !.deadline = d]
  <2>2. Alters(p, q)
    BY Zenon, Alterations DEF Dry, Sound
  <2> HIDE DEF q
  <2>3. Dry(p, q, s)
    BY <2>2, Altered DEF Dry, Alters
  <2>4. QED BY Zenon, <2>3, Continued DEF q
<1>2. {DeadlineSettled(accepted), "Elapsed"} \subseteq Deadlines
  BY DEF DeadlineSettled, Deadlines
<1>3. Dry(p, AcceptDrainDeadline(p, ws), s)
  BY <1>1, <1>2 DEF AcceptDrainDeadline
<1>4. CASE \E w \in ws : Holds(p, w, {"AwaitingRestartSchedule"})
  <2> DEFINE w == CHOOSE v \in ws : Holds(p, v, {"AwaitingRestartSchedule"})
  <2>1. w \in ws /\ Holds(p, w, {"AwaitingRestartSchedule"})
    BY <1>4
  <2>2. AcceptDrainSchedule(p, ws, accepted) =
           ContinueDraining(With(p, w[1], Drained(p.member[w[1]])))
    BY <1>4 DEF AcceptDrainSchedule
  <2> HIDE DEF w
  <2>3. w[1] \in Roles /\ p.member[w[1]].at # "Busy"
    BY <2>1 DEF Holds, Workers
  <2>4. PICK r \in Roles : r = w[1]
    BY <2>3
  <2>5. Dry(p, ContinueDraining(With(p, r, Drained(p.member[r]))), s)
    BY Zenon, <2>3, <2>4, DryDrained
  <2>6. QED BY <1>3, <2>2, <2>4, <2>5
<1>5. CASE ~\E w \in ws : Holds(p, w, {"AwaitingRestartSchedule"})
  <2> DEFINE q == [p EXCEPT !.deadline = DeadlineSettled(accepted)]
  <2>1. \/ AcceptDrainSchedule(p, ws, accepted) = ContinueDraining(q)
        \/ AcceptDrainSchedule(p, ws, accepted) = p
    BY <1>5 DEF AcceptDrainSchedule
  <2>2. Dry(p, ContinueDraining(q), s)
    BY <1>1, <1>2
  <2> HIDE DEF q
  <2>3. QED BY <1>3, <2>1, <2>2
<1>6. QED BY <1>4, <1>5

-----------------------------------------------------------------------------
(* The fold of one event.                                                    *)

\* An event names workers of the roster, a kind of exit and a time; a
\* submission is the next job.
Fits(e, s) ==
    /\ e.type = "Submit" => e.job = s + 1 /\ s < NJobs
    /\ e.type = "WorkerCreationsSettled" => DOMAIN e.outcome \subseteq Workers
    /\ e.type \in {"CreationBatchRejected", "ScheduleSettled", "Elapsed"} =>
          e.of \in SUBSET Workers
    /\ e.type \in {"WorkerInitialization", "WorkerStartup", "AssignmentSettled",
                   "WorkerCompleted", "WorkerStopped", "WorkerShutdownSettled",
                   "PreparationStarted", "PreparationReturned"} => e.worker \in Workers
    /\ e.type \in {"WorkerInitialization", "WorkerStopped"} => e.kind \in Stops /\ e.now \in Nat

\* The jobs that have been submitted once the event is taken.
Submissions(e, s) == IF e.type = "Submit" THEN s + 1 ELSE s

\* An operating pool.
LEMMA OperateGood ==
    ASSUME Counting,
           NEW p, NEW s \in Nat, Good(p, p, s), p.mode = "Operating", NEW e, Fits(e, s)
    PROVE  Good(p, Operate(p, e), Submissions(e, s))
<1>1. CASE e.type = "Submit"
  BY <1>1, SubmissionGood DEF Operate, Submissions, Fits
<1>2. CASE e.type = "Shutdown"
  <2>1. Good(p, BeginShutdown(p), s)
    BY ShutdownEnds DEF Good, Served
  <2>2. QED BY <1>2, <2>1 DEF Operate, Submissions
<1>3. CASE e.type = "WorkerCreationsSettled"
  BY <1>3, CreationsGood DEF Operate, Submissions, Fits
<1>4. CASE e.type = "CreationBatchRejected"
  <2>1. DOMAIN [w \in e.of |-> "Rejected"] \subseteq Workers
    BY <1>4 DEF Fits
  <2>2. Good(p, RejectCreationBatch(p, e.of), s)
    BY <2>1, CreationsGood DEF RejectCreationBatch
  <2>3. QED BY <1>4, <2>2 DEF Operate, Submissions
<1>5. CASE e.type = "WorkerInitialization"
  BY <1>5, InitializationGood DEF Operate, Submissions, Fits
<1>6. CASE e.type = "WorkerStartup"
  BY <1>6, StartupGood DEF Operate, Submissions, Fits
<1>7. CASE e.type = "AssignmentSettled"
  <2>1. e.worker \in Workers
    BY <1>7 DEF Fits
  <2>2. /\ Good(p, AcceptAssignmentReceipt(p, e.worker, e.job), s)
        /\ Good(p, RejectAssignmentDelivery(p, e.worker, e.job), s)
    BY <2>1, ReceiptGood, RejectionGood
  <2>3. QED BY <1>7, <2>2 DEF Operate, Submissions
<1>8. CASE e.type = "WorkerCompleted"
  BY <1>8, CompletedGood DEF Operate, Submissions, Fits
<1>9. CASE e.type = "WorkerStopped"
  BY <1>9, WorkerStopGood DEF Operate, Submissions, Fits
<1>10. CASE e.type = "WorkerShutdownSettled"
  BY <1>10, ShutdownSettledGood DEF Operate, Submissions, Fits
<1>11. CASE e.type = "PreparationStarted"
  BY <1>11, PreparationStartGood DEF Operate, Submissions, Fits
<1>12. CASE e.type = "PreparationReturned"
  BY <1>12, PreparationReturnGood DEF Operate, Submissions, Fits
<1>13. CASE e.type \in {"ScheduleSettled", "Elapsed"}
  <2> DEFINE w == CHOOSE v \in e.of : TRUE
  <2>1. CASE e.of = {}
    BY <1>13, <2>1 DEF Operate, Submissions
  <2>2. CASE e.of # {}
    <3>1. w \in Workers
      BY <1>13, <2>2 DEF Fits
    <3>2. \/ Operate(p, e) = AcceptRestartSchedule(p, w, e.accepted)
          \/ Operate(p, e) = AcceptRestartTimer(p, w)
      BY <1>13, <2>2 DEF Operate
    <3> HIDE DEF w
    <3>3. Good(p, Operate(p, e), s)
      BY <3>1, <3>2, RestartScheduleGood, RestartTimerGood
    <3>4. QED BY <1>13, <3>3 DEF Submissions
  <2>3. QED BY <2>1, <2>2
<1>14. CASE e.type \notin {"Submit", "Shutdown", "WorkerCreationsSettled",
               "CreationBatchRejected", "WorkerInitialization", "WorkerStartup",
               "AssignmentSettled", "WorkerCompleted", "WorkerStopped",
               "WorkerShutdownSettled", "PreparationStarted", "PreparationReturned",
               "ScheduleSettled", "Elapsed"}
  BY <1>14 DEF Operate, Submissions
<1>15. QED BY <1>1, <1>2, <1>3, <1>4, <1>5, <1>6, <1>7, <1>8, <1>9, <1>10, <1>11, <1>12,
          <1>13, <1>14

\* A pool that drains.
LEMMA DrainGood ==
    ASSUME Counting, NEW p, NEW s \in Nat, Dry(p, p, s), NEW e, Fits(e, s)
    PROVE  Good(p, Drain(p, e), Submissions(e, s))
<1>1. CASE e.type = "Submit"
  <2>1. Dry(p, Deliver(p, s + 1, "Rejected"), s + 1)
    BY <1>1, Refused DEF Dry, Fits
  <2>2. Drain(p, e) = Deliver(p, s + 1, "Rejected") /\ Submissions(e, s) = s + 1
    BY <1>1 DEF Drain, Submissions, Fits
  <2>3. QED BY <2>1, <2>2 DEF Dry, Good, Served
<1>2. CASE e.type # "Submit"
  <2>0. SUFFICES Dry(p, Drain(p, e), s)
    BY <1>2 DEF Dry, Good, Served, Submissions
  <2>1. CASE e.type = "WorkerCreationsSettled"
    BY <2>1, DrainCreationsGood DEF Drain, Fits
  <2>2. CASE e.type = "CreationBatchRejected"
    <3>1. DOMAIN [w \in e.of |-> "Rejected"] \subseteq Workers
      BY <2>2 DEF Fits
    <3>2. Dry(p, RejectDrainCreations(p, e.of), s)
      BY <3>1, DrainCreationsGood DEF RejectDrainCreations
    <3>3. QED BY <2>2, <3>2 DEF Drain
  <2>3. CASE e.type = "WorkerInitialization"
    BY <2>3, DrainReportsGood DEF Drain, Fits
  <2>4. CASE e.type = "WorkerStartup"
    <3>1. e.worker \in Workers /\ NoStop \in Stops
      BY <2>4 DEF Fits, Stops
    <3>2. Dry(p, AcceptDrainStartup(p, e.worker, e.report), s)
      BY <3>1, DrainReportsGood
    <3>3. QED BY <2>4, <3>2 DEF Drain
  <2>5. CASE e.type = "WorkerStopped"
    BY <2>5, DrainReportsGood DEF Drain, Fits
  <2>6. CASE e.type = "WorkerShutdownSettled"
    <3>1. e.worker \in Workers /\ NoStop \in Stops
      BY <2>6 DEF Fits, Stops
    <3>2. Dry(p, AcceptDrainShutdown(p, e.worker), s)
      BY <3>1, DrainReportsGood
    <3>3. QED BY <2>6, <3>2 DEF Drain
  <2>7. CASE e.type = "PreparationStarted"
    BY <2>7, DrainPreparationsGood DEF Drain, Fits
  <2>8. CASE e.type = "PreparationReturned"
    BY <2>8, DrainPreparationsGood DEF Drain, Fits
  <2>9. CASE e.type = "ScheduleSettled"
    BY <2>9, DrainTimersGood DEF Drain, Fits
  <2>10. CASE e.type = "Elapsed"
    BY <2>10, DrainTimersGood DEF Drain, Fits
  <2>11. CASE e.type \notin {"Submit", "WorkerCreationsSettled", "CreationBatchRejected",
                 "WorkerInitialization", "WorkerStartup", "WorkerStopped",
                 "WorkerShutdownSettled", "PreparationStarted", "PreparationReturned",
                 "ScheduleSettled", "Elapsed"}
    BY <2>11 DEF Drain
  <2>12. QED BY <1>2, <2>1, <2>2, <2>3, <2>4, <2>5, <2>6, <2>7, <2>8, <2>9, <2>10, <2>11
<1>3. QED BY <1>1, <1>2

\* The pool takes one event.
LEMMA TransitionGood ==
    ASSUME Counting, NEW p, NEW s \in Nat, Good(p, p, s), NEW e, Fits(e, s)
    PROVE  Good(p, Transition(p, e), Submissions(e, s))
<1>1. CASE p.mode = "Operating"
  BY <1>1, OperateGood DEF Transition
<1>2. CASE p.mode # "Operating"
  <2>1. Dry(p, p, s)
    BY <1>2 DEF Dry, Good
  <2>2. QED BY <1>2, <2>1, DrainGood DEF Transition
<1>3. QED BY <1>1, <1>2

-----------------------------------------------------------------------------
(* The pool and the runtime around it.                                       *)

\* The inductive invariant: the pool is sound, and what the runtime may still
\* tell it names workers of its roster.
Inductive ==
    /\ submitted \in 0 .. NJobs /\ clock \in Nat
    /\ Good(pool, pool, submitted)
    /\ owed \subseteq Requests
    /\ \A c \in work : c[1] \in Workers

\* What a step of the system must bring about.
Kept == Inductive' /\ Ordered(pool, pool')

\* The pool takes an event, and the runtime the requests that follow from it.
LEMMA Taken ==
    ASSUME Counting, Inductive, NEW e, NEW answered, NEW completed, NEW extra,
           Fits(e, submitted), extra \subseteq Requests,
           Runtime!Take(e, answered, completed, extra),
           submitted' = Submissions(e, submitted), submitted' \in 0 .. NJobs, clock' \in Nat
    PROVE  Kept
<1> DEFINE p == Transition(pool, e)
           s == submitted'
<1>1. submitted \in Nat
  BY DEF Inductive
<1>2. Good(pool, p, s)
  BY <1>1, TransitionGood DEF Inductive
<1>3. /\ pool' = [p EXCEPT !.sent = {}]
      /\ owed' = (owed \ answered) \cup p.sent \cup extra
                   \cup {Runtime!Req("exit", q.of, 0) :
                          q \in {u \in p.sent : u.op = "shutdown" /\ u.of \subseteq up'}}
      /\ work' = (work \ completed)
                   \cup UNION {{<<w, q.job>> : w \in q.of \cap up'} :
                                 q \in {u \in p.sent : u.op = "assign"}}
  BY DEF Runtime!Take
<1> HIDE DEF p
<1>4. p \in PoolStates /\ p.sent \subseteq Requests
  BY Zenon, <1>2 DEF Good, Sound, PoolStates
<1>5. Alters(p, pool')
  BY <1>3, <1>4 DEF Alters, PoolStates
<1>6. Good(pool, pool', s)
  BY <1>2, <1>5, GoodAltered
<1>7. Good(pool', pool', s) /\ Ordered(pool, pool')
  BY <1>6 DEF Good, Sound, Ordered
<1>8. owed' \subseteq Requests
  <2>1. \A q \in Requests : Runtime!Req("exit", q.of, 0) \in Requests
    <3>1. "exit" \in Ops /\ 0 \in 0 .. NJobs
      BY PoolAssumption DEF Ops
    <3>2. QED BY <3>1 DEF Runtime!Req, Requests
  <2>2. owed \subseteq Requests
    BY DEF Inductive
  <2>3. QED BY <1>3, <1>4, <2>1, <2>2
<1>9. \A c \in work' : c[1] \in Workers
  <2>1. \A q \in p.sent : q.of \subseteq Workers
    BY <1>4 DEF Requests
  <2>2. \A c \in work : c[1] \in Workers
    BY DEF Inductive
  <2>3. QED BY <1>3, <2>1, <2>2
<1>10. QED BY Zenon, <1>7, <1>8, <1>9 DEF Kept, Inductive

\* A request names workers of the roster, and one that follows it does too.
LEMMA RequestFollows ==
    ASSUME NEW q \in Requests, NEW op \in Ops
    PROVE  q.of \subseteq Workers /\ {Runtime!Req(op, q.of, 0)} \subseteq Requests
<1>1. 0 \in 0 .. NJobs
  BY PoolAssumption
<1>2. QED BY <1>1 DEF Requests, Runtime!Req

\* A customer submits a job.
LEMMA SubmitKept ==
    ASSUME Counting, Inductive, Runtime!Submit
    PROVE  Kept
<1> DEFINE e == [type |-> "Submit", job |-> submitted + 1]
<1>1. /\ submitted < NJobs /\ submitted' = submitted + 1 /\ clock' = clock
      /\ Runtime!Take(e, {}, {}, {})
  BY DEF Runtime!Submit, Runtime!Stays
<1>2. Fits(e, submitted) /\ submitted' = Submissions(e, submitted)
  BY <1>1 DEF Fits, Submissions
<1>3. submitted' \in 0 .. NJobs /\ clock' \in Nat
  BY <1>1, PoolAssumption DEF Inductive
<1> HIDE DEF e
<1>4. QED BY <1>1, <1>2, <1>3, Taken

\* The pool takes an event that is not a submission.
LEMMA TakenOther ==
    ASSUME Counting, Inductive, NEW e, NEW answered, NEW completed, NEW extra,
           Fits(e, submitted), e.type # "Submit", extra \subseteq Requests,
           Runtime!Take(e, answered, completed, extra),
           submitted' = submitted, clock' \in {clock, clock + 1}
    PROVE  Kept
<1>1. submitted' = Submissions(e, submitted)
  BY DEF Submissions
<1>2. submitted' \in 0 .. NJobs /\ clock' \in Nat
  BY DEF Inductive
<1>3. QED BY Zenon, <1>1, <1>2, Taken

\* The pool is told to shut down.
LEMMA ShutdownKept ==
    ASSUME Counting, Inductive, Runtime!ShutdownPool
    PROVE  Kept
<1> DEFINE e == [type |-> "Shutdown"]
<1>1. submitted' = submitted /\ clock' = clock /\ Runtime!Take(e, {}, {}, {})
  BY DEF Runtime!ShutdownPool, Runtime!Stays
<1>2. Fits(e, submitted) /\ e.type # "Submit"
  BY DEF Fits
<1> HIDE DEF e
<1>3. QED BY <1>1, <1>2, TakenOther

\* The runtime answers a request.
LEMMA SettlementKept ==
    ASSUME Counting, Inductive, submitted' = submitted, Runtime!Settlement
    PROVE  Kept
<1>0. PICK q \in Requests :
         \/ Runtime!WorkerCreationsSettled(q)
         \/ Runtime!WorkerCreationBatchRejected(q)
         \/ Runtime!WorkerInitialization(q)
         \/ Runtime!WorkerStartup(q)
         \/ Runtime!AssignmentSettled(q)
         \/ Runtime!WorkerShutdownSettled(q)
         \/ Runtime!WorkerExits(q)
         \/ Runtime!WorkerPreparationStarted(q)
         \/ Runtime!WorkerPreparationReturned(q)
         \/ Runtime!ScheduleSettled(q)
         \/ Runtime!TimerElapsed(q)
  BY DEF Runtime!Settlement, Inductive
<1>f. /\ q.of \subseteq Workers
      /\ \A op \in {"notice", "ready", "prepared", "elapse"} :
            {Runtime!Req(op, q.of, 0)} \subseteq Requests
  BY RequestFollows DEF Ops
<1>1. CASE Runtime!WorkerCreationsSettled(q)
  <2>1. PICK rejected :
           /\ clock' = clock
           /\ Runtime!Take([type |-> "WorkerCreationsSettled",
                            outcome |-> [w \in q.of |-> IF w \in rejected THEN "Rejected"
                                                        ELSE "Established"]], {q}, {}, {})
    BY <1>1 DEF Runtime!WorkerCreationsSettled
  <2> DEFINE e == [type |-> "WorkerCreationsSettled",
                   outcome |-> [w \in q.of |-> IF w \in rejected THEN "Rejected"
                                               ELSE "Established"]]
  <2>2. Fits(e, submitted) /\ e.type # "Submit"
    BY <1>f DEF Fits
  <2>3. Runtime!Take(e, {q}, {}, {})
    BY <2>1
  <2> HIDE DEF e
  <2>4. QED BY <2>1, <2>2, <2>3, TakenOther
<1>2. CASE Runtime!WorkerCreationBatchRejected(q)
  <2> DEFINE e == [type |-> "CreationBatchRejected", of |-> q.of]
  <2>1. clock' = clock /\ Runtime!Take(e, {q}, {}, {})
    BY <1>2 DEF Runtime!WorkerCreationBatchRejected, Runtime!Stays
  <2>2. Fits(e, submitted) /\ e.type # "Submit"
    BY <1>f DEF Fits
  <2> HIDE DEF e
  <2>3. QED BY <2>1, <2>2, TakenOther
<1>3. CASE Runtime!WorkerInitialization(q)
  <2> DEFINE e(w, report) == [type |-> "WorkerInitialization", worker |-> w,
                              report |-> report, kind |-> "Abnormal", now |-> clock']
             dies(w, report) == report = "Stopped" /\ w \in up
             answered(w, report) ==
                 {q, Runtime!Req("exit", IF dies(w, report) THEN q.of ELSE {}, 0)}
             extra(w, report) ==
                 IF dies(w, report) THEN {Runtime!Req("notice", q.of, 0)} ELSE {}
  <2>1. PICK w, report :
           /\ w \in q.of /\ clock' \in {clock, clock + 1}
           /\ Runtime!Take(e(w, report), answered(w, report), {}, extra(w, report))
    BY Zenon, <1>3 DEF Runtime!WorkerInitialization, Runtime!Exits
  <2>2. w \in q.of /\ clock' \in Nat
    <3>1. w \in q.of /\ clock' \in {clock, clock + 1}
      BY Zenon, <2>1
    <3>2. clock \in Nat
      BY DEF Inductive
    <3>3. QED BY <3>1, <3>2
  <2>3. Fits(e(w, report), submitted) /\ e(w, report).type # "Submit"
    BY <1>f, <2>2 DEF Fits, Stops
  <2>4. extra(w, report) \subseteq Requests
    BY <1>f
  <2> HIDE DEF e, answered, extra
  <2>5. QED BY <2>1, <2>3, <2>4, TakenOther
<1>4. CASE Runtime!WorkerStartup(q)
  <2> DEFINE e(w, report)  == [type |-> "WorkerStartup", worker |-> w, report |-> report]
             extra(report) == IF report = "Started" THEN {Runtime!Req("ready", q.of, 0)}
                              ELSE {}
  <2>1. PICK w, report :
           w \in q.of /\ clock' = clock /\ Runtime!Take(e(w, report), {q}, {}, extra(report))
    BY Zenon, <1>4 DEF Runtime!WorkerStartup, Runtime!Stays
  <2>2. Fits(e(w, report), submitted) /\ e(w, report).type # "Submit"
    BY <1>f, <2>1 DEF Fits
  <2>3. extra(report) \subseteq Requests
    BY <1>f
  <2> HIDE DEF e, extra
  <2>4. QED BY Zenon, <2>1, <2>2, <2>3, TakenOther
<1>5. CASE Runtime!AssignmentSettled(q)
  <2> DEFINE e(w, result) == [type |-> "AssignmentSettled", worker |-> w, job |-> q.job,
                              result |-> result]
  <2>1. PICK w, result, completed :
           w \in q.of /\ clock' = clock /\ Runtime!Take(e(w, result), {q}, completed, {})
    BY Zenon, <1>5 DEF Runtime!AssignmentSettled
  <2>2. Fits(e(w, result), submitted) /\ e(w, result).type # "Submit"
    BY <1>f, <2>1 DEF Fits
  <2> HIDE DEF e
  <2>3. PICK event : event = e(w, result)
    OBVIOUS
  <2>4. /\ Fits(event, submitted) /\ event.type # "Submit"
        /\ Runtime!Take(event, {q}, completed, {})
        /\ clock' \in {clock, clock + 1} /\ {} \subseteq Requests
    BY Zenon, <2>1, <2>2, <2>3
  <2>5. QED BY <2>4, TakenOther
<1>6. CASE Runtime!WorkerShutdownSettled(q)
  <2> DEFINE e(w) == [type |-> "WorkerShutdownSettled", worker |-> w]
  <2>1. PICK w \in q.of : clock' = clock /\ Runtime!Take(e(w), {q}, {}, {})
    BY <1>6 DEF Runtime!WorkerShutdownSettled, Runtime!Stays
  <2>2. Fits(e(w), submitted) /\ e(w).type # "Submit"
    BY <1>f, <2>1 DEF Fits
  <2> HIDE DEF e
  <2>3. QED BY <2>1, <2>2, TakenOther
<1>7. CASE Runtime!WorkerExits(q)
  <2> DEFINE e(w) == [type |-> "WorkerStopped", worker |-> w, kind |-> "Normal",
                      now |-> clock']
  <2>1. PICK w \in q.of : /\ clock' \in {clock, clock + 1}
                          /\ Runtime!Take(e(w), {q}, {}, {})
    BY <1>7 DEF Runtime!WorkerExits, Runtime!Exits
  <2>2. clock' \in Nat
    BY <2>1 DEF Inductive
  <2>3. Fits(e(w), submitted) /\ e(w).type # "Submit"
    BY <1>f, <2>1, <2>2 DEF Fits, Stops
  <2> HIDE DEF e
  <2>4. QED BY <2>1, <2>3, TakenOther
<1>8. CASE Runtime!WorkerPreparationStarted(q)
  <2> DEFINE e(w, accepted)  == [type |-> "PreparationStarted", worker |-> w,
                                 accepted |-> accepted]
             extra(accepted) == IF accepted THEN {Runtime!Req("prepared", q.of, 0)} ELSE {}
  <2>1. PICK w, accepted :
           w \in q.of /\ clock' = clock /\ Runtime!Take(e(w, accepted), {q}, {}, extra(accepted))
    BY <1>8 DEF Runtime!WorkerPreparationStarted, Runtime!Stays
  <2>2. Fits(e(w, accepted), submitted) /\ e(w, accepted).type # "Submit"
    BY <1>f, <2>1 DEF Fits
  <2>3. extra(accepted) \subseteq Requests
    BY <1>f
  <2> HIDE DEF e, extra
  <2>4. QED BY <2>1, <2>2, <2>3, TakenOther
<1>9. CASE Runtime!WorkerPreparationReturned(q)
  <2> DEFINE e(w, prepared) == [type |-> "PreparationReturned", worker |-> w,
                                prepared |-> prepared]
  <2>1. PICK w, prepared :
           w \in q.of /\ clock' = clock /\ Runtime!Take(e(w, prepared), {q}, {}, {})
    BY Zenon, <1>9 DEF Runtime!WorkerPreparationReturned, Runtime!Stays
  <2>2. Fits(e(w, prepared), submitted) /\ e(w, prepared).type # "Submit"
    BY <1>f, <2>1 DEF Fits
  <2> HIDE DEF e
  <2>3. QED BY <2>1, <2>2, TakenOther
<1>10. CASE Runtime!ScheduleSettled(q)
  <2> DEFINE e(accepted) == [type |-> "ScheduleSettled", of |-> q.of, accepted |-> accepted]
             extra(accepted) == IF accepted THEN {Runtime!Req("elapse", q.of, 0)} ELSE {}
  <2>1. PICK accepted :
           clock' = clock /\ Runtime!Take(e(accepted), {q}, {}, extra(accepted))
    BY <1>10 DEF Runtime!ScheduleSettled, Runtime!Stays
  <2>2. Fits(e(accepted), submitted) /\ e(accepted).type # "Submit"
    BY <1>f DEF Fits
  <2>3. extra(accepted) \subseteq Requests
    BY <1>f
  <2> HIDE DEF e, extra
  <2>4. QED BY <2>1, <2>2, <2>3, TakenOther
<1>11. CASE Runtime!TimerElapsed(q)
  <2> DEFINE e == [type |-> "Elapsed", of |-> q.of]
  <2>1. clock' = clock /\ Runtime!Take(e, {q}, {}, {})
    BY <1>11 DEF Runtime!TimerElapsed, Runtime!Stays
  <2>2. Fits(e, submitted) /\ e.type # "Submit"
    BY <1>f DEF Fits
  <2> HIDE DEF e
  <2>3. QED BY <2>1, <2>2, TakenOther
<1>12. QED BY <1>0, <1>1, <1>2, <1>3, <1>4, <1>5, <1>6, <1>7, <1>8, <1>9, <1>10, <1>11

\* A worker completes a job.
LEMMA CompletionKept ==
    ASSUME Counting, Inductive, submitted' = submitted, Runtime!Completion
    PROVE  Kept
<1> DEFINE e(w, j) == [type |-> "WorkerCompleted", worker |-> w, job |-> j]
<1>1. PICK w, j : /\ w \in Workers /\ clock' = clock
                  /\ Runtime!Take(e(w, j), {}, {<<w, j>>}, {})
  BY Zenon DEF Runtime!Completion, Runtime!WorkerCompletes, Runtime!Stays, Inductive
<1>2. Fits(e(w, j), submitted) /\ e(w, j).type # "Submit"
  BY <1>1 DEF Fits
<1> HIDE DEF e
<1>3. QED BY <1>1, <1>2, TakenOther

\* A worker fails.
LEMMA FailureKept ==
    ASSUME Counting, Inductive, submitted' = submitted, Runtime!Failure
    PROVE  Kept
<1> DEFINE e(w, kind) == [type |-> "WorkerStopped", worker |-> w, kind |-> kind,
                          now |-> clock']
<1>1. PICK r \in 1 .. NRoles, n \in 1 .. MaxCreations + 1, kind \in {"Normal", "Abnormal"} :
         Runtime!WorkerFails(<<r, n>>, kind)
  BY DEF Runtime!Failure
<1> DEFINE w == <<r, n>>
<1>2. w \in Workers
  BY DEF Workers, Roles
<1>3. clock' = clock + 1 /\ Runtime!Take(e(w, kind), {Runtime!Req("exit", {w}, 0)}, {}, {})
  BY <1>1 DEF Runtime!WorkerFails, Runtime!Exits
<1>4. clock' \in Nat
  BY <1>3 DEF Inductive
<1>5. Fits(e(w, kind), submitted) /\ e(w, kind).type # "Submit"
  BY <1>2, <1>4 DEF Fits, Stops
<1> HIDE DEF e, w
<1>6. QED BY <1>3, <1>5, TakenOther

\* Every step of the system.
LEMMA NextKept ==
    ASSUME Counting, Inductive, [Next]_vars
    PROVE  Kept
<1>1. CASE UNCHANGED vars
  <2>1. Inductive'
    BY <1>1 DEF vars, Inductive
  <2>2. Ordered(pool, pool')
    BY <1>1 DEF vars, Ordered
  <2>3. QED BY <2>1, <2>2 DEF Kept
<1>2. CASE Next
  <2>1. \/ Runtime!Submit \/ Runtime!ShutdownPool
        \/ submitted' = submitted /\ Runtime!Settlement
        \/ submitted' = submitted /\ Runtime!Completion
        \/ submitted' = submitted /\ Runtime!Failure
    BY <1>2 DEF Next, Runtime!RuntimeNext
  <2>2. QED BY <2>1, SubmitKept, ShutdownKept, SettlementKept, CompletionKept, FailureKept
<1>3. QED BY <1>1, <1>2

\* A pool that has just started.
LEMMA StartedGood ==
    ASSUME Counting, NEW c \in Configs
    PROVE  Good(Started(c), Started(c), 0)
<1> DEFINE p == Started(c)
           members == [r \in Roles |-> Start(1)]
           told == [j \in Jobs |-> <<>>]
<1>1. /\ p.mode = "Operating" /\ p.member = members /\ p.backlog = {} /\ p.told = told
      /\ p.charges = <<>>
  BY DEF Started
<1>2. Start(1) \in Members /\ Start(1).at = "Creating"
  <2>1. "Creating" \in States /\ NoStop \in Stops /\ NoSub \in Subs /\ NoSub \in Custodies
        /\ NoJob \in 0 .. NJobs
    BY Names
  <2>2. QED BY <2>1 DEF Start, Members
<1>3. members \in [Roles -> Members] /\ \A r \in Roles : p.member[r].at = "Creating"
  BY Zenon, <1>1, <1>2
<1>4. told \in [Jobs -> {<<>>, Open} \cup Ends] /\ \A j \in Jobs : p.told[j] = <<>>
  BY <1>1
<1>5. p \in PoolStates
  <2>1. /\ 0 \in 0 .. NRoles /\ "Unlimited" \in Deadlines /\ <<>> \in Seq(Charges)
        /\ MaxJobs \in Int /\ MaxAssignments \in Int /\ MaxShutdowns \in Int
        /\ MaxCreations \in Int /\ MaxTimers \in Int
    BY PoolAssumption DEF Deadlines
  <2> HIDE DEF members, told
  <2> DEFINE started == [mode |-> "Operating", member |-> members,
                         backlog |-> {}, retried |-> {}, cursor |-> 0, source |-> "Available",
                         charges |-> <<>>, deadline |-> "Unlimited", conf |-> c,
                         jobs |-> MaxJobs, assignments |-> MaxAssignments, shutdowns |-> MaxShutdowns,
                         creations |-> MaxCreations, timers |-> MaxTimers,
                         sent |-> {}, told |-> told]
  <2>2. p = started
    BY Zenon DEF Started, members, told
  <2>3. /\ "Operating" \in {"Operating", "Draining", "Stopped", "ForcedRetirement"}
        /\ "Available" \in {"Available", "AwaitingReturn"}
        /\ {} \in SUBSET Jobs /\ {} \in SUBSET Requests
    BY Zenon
  <2>4. members \in [Roles -> Members] /\ told \in [Jobs -> {<<>>, Open} \cup Ends]
    BY <1>3, <1>4
  <2>5. started \in PoolStates
    BY Zenon, <2>1, <2>3, <2>4 DEF PoolStates
  <2>6. QED BY Zenon, <2>2, <2>5
<1> HIDE DEF p
<1>6. OpenJobs(p) = {}
  BY <1>4, EndsAreEnds DEF OpenJobs
<1>7. {r \in Roles : Occupied(p.member[r])} = {}
  BY <1>3 DEF Occupied
<1>8. Conserved(p, 0, 0)
  BY <1>1, <1>3, <1>4, <1>6 DEF Conserved, Busy, Jobs
<1>9. Limited(p)
  <2>1. Cardinality({}) = 0
    BY CountEmpty
  <2>2. Replacements(p.charges) = 0
    <3>1. <<>> \in Seq(Charges) /\ Len(<<>>) = 0
      OBVIOUS
    <3>2. QED BY Zenon, <1>1, <3>1, Counted
  <2>3. Cardinality(OpenJobs(p)) = 0 /\ Cardinality({r \in Roles : Occupied(p.member[r])}) = 0
    BY Zenon, <1>6, <1>7, <2>1
  <2>4. 0 <= BacklogCapacity + NRoles /\ 0 <= StartupLimit /\ 0 <= RestartLimit.maximum
    BY PoolAssumption
  <2>5. QED BY Zenon, <2>2, <2>3, <2>4 DEF Limited
<1>10. Ordered(p, p) /\ Served(p)
  BY <1>1 DEF Ordered, Served
<1>11. QED BY <1>5, <1>8, <1>9, <1>10 DEF Good, Sound, p

\* The initial states.
LEMMA InitInductive ==
    ASSUME Counting
    PROVE  Init => Inductive
<1>1. SUFFICES ASSUME Init PROVE Inductive
  OBVIOUS
<1>2. PICK c \in Configs : pool = Started(c)
  BY <1>1 DEF Init
<1>3. /\ submitted = 0 /\ clock = 0 /\ work = {}
      /\ owed = {Req("create", {<<r, 1>> : r \in Roles}, NoJob)}
  BY <1>1 DEF Init, Runtime!RuntimeInit
<1>4. Good(pool, pool, submitted)
  BY <1>2, <1>3, StartedGood
<1>5. Req("create", {<<r, 1>> : r \in Roles}, NoJob) \in Requests
  BY PoolAssumption DEF Req, Requests, Ops, Workers, NoJob
<1>6. QED BY <1>3, <1>4, <1>5, PoolAssumption DEF Inductive

-----------------------------------------------------------------------------
(* The theorems.                                                             *)

\* What the customer of a job may have been told, and how often its end.
LEMMA Told ==
    ASSUME NEW p \in PoolStates, NEW j \in Jobs
    PROVE  /\ p.told[j] = Open => Outcomes(p, j) = {}
           /\ p.told[j] \in Ends => /\ \E i : Outcomes(p, j) = {i}
                                    /\ p.told[j][Len(p.told[j])] \in Terminal
<1>1. "Accepted" \notin Terminal /\ "Rejected" \in Terminal
  BY DEF Terminal
<1>2. ASSUME p.told[j] = Open PROVE Outcomes(p, j) = {}
  <2>1. DOMAIN Open = {1} /\ Open[1] = "Accepted"
    BY DEF Open
  <2>2. QED BY <1>1, <1>2, <2>1 DEF Outcomes
<1>3. ASSUME p.told[j] = <<"Rejected">>
      PROVE  Outcomes(p, j) = {1} /\ p.told[j][Len(p.told[j])] \in Terminal
  <2> DEFINE e == <<"Rejected">>
  <2>1. DOMAIN e = {1} /\ e[1] = "Rejected" /\ Len(e) = 1
    OBVIOUS
  <2> HIDE DEF e
  <2>2. p.told[j] = e
    BY <1>3 DEF e
  <2>3. QED BY Zenon, <1>1, <2>1, <2>2 DEF Outcomes
<1>4. ASSUME NEW t \in Terminal, p.told[j] = <<"Accepted", t>>
      PROVE  Outcomes(p, j) = {2} /\ p.told[j][Len(p.told[j])] \in Terminal
  <2> DEFINE e == <<"Accepted", t>>
  <2>1. DOMAIN e = {1, 2} /\ e[1] = "Accepted" /\ e[2] = t /\ Len(e) = 2
    OBVIOUS
  <2> HIDE DEF e
  <2>2. p.told[j] = e
    BY <1>4 DEF e
  <2>3. QED BY Zenon, <1>1, <2>1, <2>2 DEF Outcomes
<1>5. QED BY Zenon, <1>2, <1>3, <1>4 DEF Ends

\* A sound pool accounts for its jobs.
LEMMA Accounted ==
    ASSUME Counting
    PROVE  Inductive => JobsAccounted
<1>1. SUFFICES ASSUME Inductive PROVE JobsAccounted
  OBVIOUS
<1>2. /\ pool \in PoolStates /\ Conserved(pool, submitted, 0) /\ Limited(pool)
      /\ Served(pool) /\ 0 \notin Roles /\ submitted \in 0 .. NJobs
  BY <1>1, FiniteRoles DEF Inductive, Good, Sound
<1>3. NoStrandedWork
  BY <1>2 DEF NoStrandedWork, Served, Operating
<1>4. WithinLimits
  <2>1. pool.backlog \in SUBSET OpenJobs(pool)
    BY <1>2 DEF Conserved
  <2>2. /\ Cardinality(pool.backlog) \in Nat /\ Cardinality(OpenJobs(pool)) \in Nat
        /\ Cardinality(pool.backlog) <= Cardinality(OpenJobs(pool))
    BY <2>1, FiniteOpen
  <2>3. BacklogCapacity + NRoles \in Nat
    BY PoolAssumption
  <2>4. QED BY <1>2, <2>2, <2>3 DEF Limited, WithinLimits
<1>5. JobConservation
  <2>1. SUFFICES ASSUME NEW j \in 1 .. submitted
                 PROVE  /\ Cardinality({j} \cap pool.backlog)
                             + Cardinality(Assignees(pool, j))
                             + Cardinality(Outcomes(pool, j)) = 1
                        /\ Outcomes(pool, j) # {} =>
                              pool.told[j][Len(pool.told[j])] \in Terminal
    BY DEF JobConservation
  <2>2. j \in Jobs /\ ~(submitted < j)
    BY <1>2, PoolAssumption DEF Jobs
  <2>3. pool.told[j] = Open \/ pool.told[j] \in Ends
    BY <1>2, <2>2 DEF Conserved, PoolStates
  <2>4. Cardinality({}) = 0 /\ \A x : Cardinality({x}) = 1
    BY CountEmpty, CountSingleton
  <2>5. CASE pool.told[j] = Open
    <3>1. Outcomes(pool, j) = {} /\ j \in OpenJobs(pool)
      BY <1>2, <2>2, <2>5, Told DEF OpenJobs
    <3>2. CASE j \in pool.backlog
      <4>1. {j} \cap pool.backlog = {j} /\ Assignees(pool, j) = {}
        BY <1>2, <3>2 DEF Conserved, Assignees, Busy
      <4>2. /\ Cardinality({j} \cap pool.backlog) = 1 /\ Cardinality(Outcomes(pool, j)) = 0
            /\ Cardinality(Assignees(pool, j)) = 0
        BY <2>4, <3>1, <4>1
      <4>3. QED BY <3>1, <4>2
    <3>3. CASE j \notin pool.backlog
      <4>1. PICK r \in Roles : Busy(pool, r) /\ pool.member[r].job = j
        BY <1>2, <3>1, <3>3 DEF Conserved
      <4>2. {j} \cap pool.backlog = {}
        BY <3>3
      <4>3. \A t \in Roles : Busy(pool, t) /\ pool.member[t].job = j => t = r
        BY Zenon, <1>2, <4>1 DEF Conserved
      <4>4. Assignees(pool, j) = {r}
        BY <4>1, <4>3 DEF Assignees, Busy
      <4>5. /\ Cardinality({j} \cap pool.backlog) = 0 /\ Cardinality(Outcomes(pool, j)) = 0
            /\ Cardinality(Assignees(pool, j)) = 1
        BY Zenon, <2>4, <3>1, <4>2, <4>4
      <4>6. QED BY <3>1, <4>5
    <3>4. QED BY <3>2, <3>3
  <2>6. CASE pool.told[j] \in Ends
    <3>1. j \notin OpenJobs(pool)
      BY <2>6, EndsAreEnds DEF OpenJobs
    <3>2. {j} \cap pool.backlog = {} /\ Assignees(pool, j) = {}
      BY <1>2, <3>1 DEF Conserved, Assignees, Busy
    <3>3. PICK i : Outcomes(pool, j) = {i}
      BY Zenon, <1>2, <2>2, <2>6, Told
    <3>4. pool.told[j][Len(pool.told[j])] \in Terminal
      BY <1>2, <2>2, <2>6, Told
    <3>5. /\ Cardinality({j} \cap pool.backlog) = 0 /\ Cardinality(Outcomes(pool, j)) = 1
          /\ Cardinality(Assignees(pool, j)) = 0
      BY Zenon, <2>4, <3>2, <3>3
    <3>6. QED BY <3>4, <3>5
  <2>7. QED BY <2>3, <2>5, <2>6
<1>6. QED BY <1>3, <1>4, <1>5 DEF JobsAccounted

-----------------------------------------------------------------------------
(* The facts about numbers and finite sets, from the library.                *)

Sets == INSTANCE FiniteSetTheorems

\* The library's sets, sizes and injections are those of the pool.
LEMMA SameSets ==
    /\ \A S : Sets!IsFiniteSet(S) = IsFiniteSet(S)
    /\ \A S : Sets!Cardinality(S) = Cardinality(S)
    /\ \A S, T : Sets!Injection(S, T) = Injection(S, T)
<1>1. \A S : Sets!IsFiniteSet(S) = IsFiniteSet(S)
  BY Zenon DEF Sets!IsFiniteSet, IsFiniteSet
<1>2. \A S : Sets!Cardinality(S) = Cardinality(S)
  BY Zenon DEF Sets!Cardinality, Cardinality
<1>3. \A S, T : Sets!Injection(S, T) = Injection(S, T)
  BY Zenon DEF Sets!Injection, Injection, Sets!IsInjective, IsInjective
<1>4. QED BY Zenon, <1>1, <1>2, <1>3

\* A nonempty set of numbers has a least element.
LEMMA LeastNumber ==
    ASSUME NEW T, T \subseteq Nat, T # {}
    PROVE  \E x \in T : \A y \in T : x <= y
<1>1. \E x \in T : \A y \in T : ~(<<y, x>> \in Sets!OpToRel(<, Nat))
  BY Zenon, Sets!NatLessThanWellFounded, Sets!WFMin
<1>2. \A x, y \in Nat : <<y, x>> \in Sets!OpToRel(<, Nat) <=> y < x
  BY DEF Sets!OpToRel
<1>3. \E x \in T : \A y \in T : ~(y < x)
  BY Zenon, <1>1, <1>2
<1>4. QED BY <1>3

\* The facts the steps rest on.
LEMMA Counts == Counting
<1>1. \A T : T \subseteq Nat /\ T # {} => \E x \in T : \A y \in T : x <= y
  BY Zenon, LeastNumber
<1>2. \A a, b \in Int :
         IsFiniteSet(a .. b) /\ Cardinality(a .. b) = IF a > b THEN 0 ELSE b - a + 1
  BY SameSets, Sets!FS_Interval
<1>3. /\ \A S : IsFiniteSet(S) => Cardinality(S) \in Nat
      /\ \A S : IsFiniteSet(S) =>
            \A T \in SUBSET S : IsFiniteSet(T) /\ Cardinality(T) <= Cardinality(S)
  BY Zenon, SameSets, Sets!FS_CardinalityType, Sets!FS_Subset
<1>4. /\ IsFiniteSet({}) /\ Cardinality({}) = 0
      /\ \A x : IsFiniteSet({x}) /\ Cardinality({x}) = 1
  BY Zenon, SameSets, Sets!FS_EmptySet, Sets!FS_Singleton
<1>5. \A S, x : IsFiniteSet(S) =>
         /\ IsFiniteSet(S \cup {x})
         /\ Cardinality(S \cup {x}) = IF x \in S THEN Cardinality(S) ELSE Cardinality(S) + 1
  BY SameSets, Sets!FS_AddElement
<1>6. \A S, x : IsFiniteSet(S) =>
         /\ IsFiniteSet(S \ {x})
         /\ Cardinality(S \ {x}) = IF x \in S THEN Cardinality(S) - 1 ELSE Cardinality(S)
  BY SameSets, Sets!FS_RemoveElement
<1>7. \A S, T : IsFiniteSet(S) /\ IsFiniteSet(T) =>
         Cardinality(S \cup T) = Cardinality(S) + Cardinality(T) - Cardinality(S \cap T)
  BY SameSets, Sets!FS_Union
<1>8. \A S, T : \A f \in Injection(S, T) : IsFiniteSet(T) =>
         IsFiniteSet(S) /\ Cardinality(S) <= Cardinality(T)
  BY Zenon, SameSets, Sets!FS_Injection
<1>9. QED BY Zenon, <1>1, <1>2, <1>3, <1>4, <1>5, <1>6, <1>7, <1>8 DEF Counting

-----------------------------------------------------------------------------
(* The theorems.                                                             *)

\* Inductive is an invariant of the FIFO pool and the runtime around it.
THEOREM PoolInductive == Spec => []Inductive
<1>1. Inductive /\ [Next]_vars => Inductive'
  BY Counts, NextKept DEF Kept
<1>2. QED BY Counts, InitInductive, <1>1, PTL DEF Spec

\* However receipts, completions, exits, restarts and shutdowns interleave, every
\* submitted job is in exactly one place and answered at most once, no job is
\* queued beside an idle worker or before a roster that has retired, and the
\* backlog, the startups and the restarts keep to their limits (FifoPool's
\* handlers, templates/pool/queue).
THEOREM JobsAreAccounted == Spec => []JobsAccounted
<1>1. QED BY PoolInductive, Counts, Accounted, PTL

\* A job that a step hands to a worker was admitted before every job that is
\* still queued, retried ones included (fill_fifo).
THEOREM AdmissionIsOrdered == Spec => AdmissionOrder
<1> DEFINE InOrder == \A r \in Roles :
              LET m == pool'.member[r]
              IN  (m.at = "Busy" /\ m.job # pool.member[r].job) =>
                    \A j \in pool'.backlog : m.job < j
<1>1. Inductive /\ [Next]_vars => [InOrder]_vars
  BY Counts, NextKept DEF Kept, Ordered, Busy
<1>2. QED BY PoolInductive, <1>1, PTL DEF Spec, AdmissionOrder
=============================================================================
