---------------------------- MODULE FifoPoolJobs -----------------------------
(***************************************************************************)
(* What the parts of a fold of the FIFO pool keep - dispatch, recovery,    *)
(* startup permits, shutdown, the restart budget: no job is lost or        *)
(* doubled, and the limits and the order of admission are kept.            *)
(***************************************************************************)
EXTENDS FifoPoolFacts

Busy(p, r) == p.member[r].at = "Busy"

OpenJobs(p) == {j \in Jobs : p.told[j] = Open}

\* Of the first s jobs each is queued, with one worker, or ended, and its
\* customer knows; role x is about to be replaced and does not count.
Conserved(p, s, x) ==
    /\ \A r \in Roles \ {x} : Busy(p, r) =>
          p.member[r].job \in OpenJobs(p) /\ p.member[r].job \notin p.backlog
    /\ \A r, t \in Roles \ {x} :
          Busy(p, r) /\ Busy(p, t) /\ p.member[r].job = p.member[t].job => r = t
    /\ p.backlog \subseteq OpenJobs(p)
    /\ \A j \in OpenJobs(p) \ p.backlog :
          \E r \in Roles \ {x} : Busy(p, r) /\ p.member[r].job = j
    /\ \A j \in Jobs : p.told[j] = <<>> <=> s < j

Limited(p) ==
    /\ Cardinality(OpenJobs(p)) <= BacklogCapacity + NRoles
    /\ Cardinality({r \in Roles : Occupied(p.member[r])}) <= StartupLimit
    /\ Replacements(p.charges) <= RestartLimit.maximum

\* A job that p0 had not handed out to the role precedes what is queued.
Ordered(p0, p) ==
    \A r \in Roles : Busy(p, r) /\ p.member[r].job # p0.member[r].job =>
        \A j \in p.backlog : p.member[r].job < j

\* A queued job has no idle worker and a role that may serve it.
Served(p) ==
    p.mode = "Operating" /\ p.backlog # {} =>
        /\ \A r \in Roles : p.member[r].at # "Idle"
        /\ \E r \in Roles : p.member[r].at # "Retired"

Sound(p0, p, s, x) ==
    p \in PoolStates /\ Conserved(p, s, x) /\ Limited(p) /\ Ordered(p0, p)

-----------------------------------------------------------------------------
(* Updates of a pool state.                                                  *)

\* The role is neither given work nor relieved of it, nor given a startup permit.
Alike(m, n) ==
    /\ m.at = "Busy" <=> n.at = "Busy"
    /\ n.at = "Busy" => n.job = m.job
    /\ Occupied(n) => Occupied(m)

\* The role is free and has no new startup permit.
Freed(m, n) == n.at # "Busy" /\ (Occupied(n) => Occupied(m))

-----------------------------------------------------------------------------
(* Counting.                                                                 *)

\* One more element.
LEMMA CountAdded ==
    ASSUME Counting, NEW S, NEW x, IsFiniteSet(S)
    PROVE  /\ IsFiniteSet(S \cup {x})
           /\ Cardinality(S \cup {x}) =
                 IF x \in S THEN Cardinality(S) ELSE Cardinality(S) + 1
BY Zenon DEF Counting

\* One element less.
LEMMA CountRemoved ==
    ASSUME Counting, NEW S, NEW x, IsFiniteSet(S)
    PROVE  /\ IsFiniteSet(S \ {x})
           /\ Cardinality(S \ {x}) =
                 IF x \in S THEN Cardinality(S) - 1 ELSE Cardinality(S)
BY Zenon DEF Counting

\* Two finite sets together.
LEMMA CountUnion ==
    ASSUME Counting, NEW S, IsFiniteSet(S), NEW T, IsFiniteSet(T)
    PROVE  Cardinality(S \cup T) = Cardinality(S) + Cardinality(T) - Cardinality(S \cap T)
BY Zenon DEF Counting

-----------------------------------------------------------------------------
(* The roster and its workers.                                               *)

\* A role's record is replaced.
LEMMA WithType ==
    ASSUME NEW p \in PoolStates, NEW r \in Roles, NEW m \in Members
    PROVE  /\ With(p, r, m) \in PoolStates
           /\ With(p, r, m).member = [p.member EXCEPT ![r] = m]
           /\ With(p, r, m).backlog = p.backlog /\ With(p, r, m).told = p.told
           /\ With(p, r, m).mode = p.mode /\ With(p, r, m).conf = p.conf
           /\ With(p, r, m).charges = p.charges /\ With(p, r, m).source = p.source
BY Zenon DEF With, PoolStates

\* A request joins those of the fold.
LEMMA SendType ==
    ASSUME NEW p \in PoolStates, NEW r \in Roles, NEW op \in Ops, NEW j \in 0 .. NJobs
    PROVE  /\ Send(p, op, r, j) \in PoolStates
           /\ Send(p, op, r, j).member = p.member
           /\ Send(p, op, r, j).backlog = p.backlog /\ Send(p, op, r, j).told = p.told
           /\ Send(p, op, r, j).mode = p.mode /\ Send(p, op, r, j).conf = p.conf
           /\ Send(p, op, r, j).charges = p.charges /\ Send(p, op, r, j).source = p.source
<1>1. p.member[r].n \in Nat
  BY DEF PoolStates, Members
<1>2. Req(op, {WorkerOf(p, r)}, j) \in Requests
  BY <1>1 DEF Req, WorkerOf, Requests, Workers
<1>3. QED BY Zenon, <1>2 DEF Send, PoolStates

\* Short sequences.
LEMMA Tuples ==
    /\ \A x : Append(<<>>, x) = <<x>>
    /\ \A x, y : Append(<<x>>, y) = <<x, y>>
<1>1. \A x : Append(<<>>, x) = <<x>>
  OBVIOUS
<1>2. ASSUME NEW x, NEW y PROVE Append(<<x>>, y) = <<x, y>>
  <2> DEFINE s == Append(<<x>>, y)
             t == <<x, y>>
  <2>1. <<x>> \in Seq({x, y}) /\ Len(<<x>>) = 1 /\ <<x>>[1] = x
    OBVIOUS
  <2>2. t \in Seq({x, y}) /\ Len(t) = 2 /\ t[1] = x /\ t[2] = y
    OBVIOUS
  <2>3. s \in Seq({x, y}) /\ Len(s) = 2 /\ s[1] = x /\ s[2] = y
    BY <2>1
  <2> HIDE DEF s, t
  <2>4. s = [i \in 1 .. 2 |-> IF i = 1 THEN x ELSE y]
    BY <2>3
  <2>5. t = [i \in 1 .. 2 |-> IF i = 1 THEN x ELSE y]
    BY <2>2
  <2>6. s = t
    BY <2>4, <2>5
  <2>7. QED BY <2>6 DEF s, t
<1>3. QED BY <1>1, <1>2

\* An accepted job is told its end.
LEMMA DeliverType ==
    ASSUME NEW p \in PoolStates, NEW j \in Jobs, p.told[j] = Open, NEW t \in Terminal
    PROVE  /\ Deliver(p, j, t) \in PoolStates
           /\ Deliver(p, j, t).told = [p.told EXCEPT ![j] = <<"Accepted", t>>]
           /\ <<"Accepted", t>> \in Ends
           /\ Deliver(p, j, t).member = p.member /\ Deliver(p, j, t).backlog = p.backlog
           /\ Deliver(p, j, t).mode = p.mode /\ Deliver(p, j, t).conf = p.conf
           /\ Deliver(p, j, t).charges = p.charges /\ Deliver(p, j, t).source = p.source
<1>1. Append(Open, t) = <<"Accepted", t>>
  BY Tuples DEF Open
<1>2. <<"Accepted", t>> \in Ends
  BY DEF Ends
<1>3. QED BY Zenon, <1>1, <1>2 DEF Deliver, PoolStates

\* An end is neither nothing nor an acceptance.
LEMMA EndsAreEnds == Open # <<>> /\ \A e \in Ends : e # <<>> /\ e # Open
<1>1. \A t : <<"Accepted", t>> # <<"Accepted">> /\ <<"Accepted", t>> # <<>>
  OBVIOUS
<1>2. <<"Rejected">> # <<"Accepted">> /\ <<"Rejected">> # <<>> /\ <<"Accepted">> # <<>>
  OBVIOUS
<1>3. QED BY <1>1, <1>2 DEF Ends, Open

-----------------------------------------------------------------------------
(* Dispatch.                                                                 *)

\* The open jobs are finitely many.
LEMMA FiniteOpen ==
    ASSUME Counting
    PROVE  /\ IsFiniteSet(Jobs) /\ Jobs \subseteq Nat
           /\ \A p : IsFiniteSet(OpenJobs(p)) /\ Cardinality(OpenJobs(p)) \in Nat
           /\ \A p : \A S \in SUBSET OpenJobs(p) :
                 /\ IsFiniteSet(S) /\ Cardinality(S) \in Nat
                 /\ Cardinality(S) <= Cardinality(OpenJobs(p))
<1>0. IsFiniteSet(1 .. NJobs)
  BY CountInterval, PoolAssumption
<1>1. IsFiniteSet(Jobs) /\ Jobs \subseteq Nat
  BY <1>0, PoolAssumption DEF Jobs
<1>2. \A p : OpenJobs(p) \subseteq Jobs
  BY DEF OpenJobs
<1>3. \A p : IsFiniteSet(OpenJobs(p))
  BY <1>1, <1>2, CountSubset
<1>4. QED BY <1>1, <1>3, CountSubset, CountType

\* The jobs J end: they leave the queue and their workers, and their customers
\* are told.  Role x has been replaced, and role y is left to be replaced.
Closes(p, q, J, x, y) ==
    /\ q \in PoolStates /\ J \subseteq OpenJobs(p)
    /\ \A j \in Jobs : IF j \in J THEN q.told[j] \in Ends ELSE q.told[j] = p.told[j]
    /\ q.backlog = p.backlog \ J /\ q.charges = p.charges
    /\ \A r \in Roles \ {y} :
          IF r # x /\ Busy(p, r) /\ p.member[r].job \notin J
          THEN Alike(p.member[r], q.member[r]) ELSE Freed(p.member[r], q.member[r])
    /\ y \in Roles => /\ q.member[y] = p.member[y]
                      /\ y # x /\ Busy(p, y) => p.member[y].job \in J

\* Such a step keeps the pool sound.
LEMMA Close ==
    ASSUME Counting, NEW p0, NEW p, NEW q, NEW s, NEW J, NEW x, NEW y,
           Sound(p0, p, s, x), Closes(p, q, J, x, y)
    PROVE  Sound(p0, q, s, y)
<1> USE DEF Closes
<1>0. p \in PoolStates /\ Conserved(p, s, x) /\ Ordered(p0, p) /\ Limited(p)
  BY DEF Sound
<1>1. OpenJobs(q) = OpenJobs(p) \ J
  BY EndsAreEnds DEF OpenJobs
<1>2. \A r \in Roles : Busy(q, r) =>
         Busy(p, r) /\ q.member[r].job = p.member[r].job
  BY DEF Busy, Alike, Freed
<1>3. \A r \in Roles \ {y} : Busy(q, r) => r # x /\ p.member[r].job \notin J
  BY DEF Busy, Alike, Freed
<1>4. \A r \in Roles \ {x} : Busy(p, r) /\ p.member[r].job \notin J =>
         r # y /\ Busy(q, r) /\ q.member[r].job = p.member[r].job
  BY DEF Busy, Alike
<1>5. Conserved(q, s, y)
  <2>1. \A r \in Roles \ {y} : Busy(q, r) =>
           q.member[r].job \in OpenJobs(q) /\ q.member[r].job \notin q.backlog
    BY <1>0, <1>1, <1>2, <1>3 DEF Conserved
  <2>2. \A r, t \in Roles \ {y} :
           Busy(q, r) /\ Busy(q, t) /\ q.member[r].job = q.member[t].job => r = t
    BY <1>0, <1>2, <1>3 DEF Conserved
  <2>3. q.backlog \subseteq OpenJobs(q)
    BY <1>0, <1>1 DEF Conserved
  <2>4. \A j \in OpenJobs(q) \ q.backlog :
           \E r \in Roles \ {y} : Busy(q, r) /\ q.member[r].job = j
    <3>1. SUFFICES ASSUME NEW j \in OpenJobs(q) \ q.backlog
                   PROVE  \E r \in Roles \ {y} : Busy(q, r) /\ q.member[r].job = j
      OBVIOUS
    <3>2. j \in OpenJobs(p) \ p.backlog /\ j \notin J
      BY <1>1
    <3>3. PICK r \in Roles \ {x} : Busy(p, r) /\ p.member[r].job = j
      BY <1>0, <3>2 DEF Conserved
    <3>4. QED BY <1>4, <3>2, <3>3
  <2>5. \A j \in Jobs : q.told[j] = <<>> <=> s < j
    <3>1. \A j \in J : p.told[j] # <<>>
      BY EndsAreEnds DEF OpenJobs
    <3>2. QED BY <1>0, <3>1, EndsAreEnds DEF Conserved
  <2>6. QED BY <2>1, <2>2, <2>3, <2>4, <2>5 DEF Conserved
<1>6. Limited(q)
  <2> DEFINE S == {r \in Roles : Occupied(p.member[r])}
             T == {r \in Roles : Occupied(q.member[r])}
  <2>1. T \subseteq S
    <3>1. \A r \in Roles : Occupied(p.member[r]) \/ ~Occupied(q.member[r])
      BY DEF Alike, Freed
    <3>2. QED BY <3>1
  <2>2. Cardinality(T) <= Cardinality(S) /\ Cardinality(T) \in Nat /\ Cardinality(S) \in Nat
    BY <2>1, FiniteRoles, CountSubset
  <2>3. /\ Cardinality(OpenJobs(q)) \in Nat /\ Cardinality(OpenJobs(p)) \in Nat
        /\ Cardinality(OpenJobs(q)) <= Cardinality(OpenJobs(p))
    BY <1>1, FiniteOpen
  <2>4. QED BY <1>0, <2>2, <2>3, PoolAssumption DEF Limited
<1>7. Ordered(p0, q)
  BY <1>0, <1>2 DEF Ordered
<1>8. QED BY <1>5, <1>6, <1>7 DEF Sound

\* Members change and no job does.
Updates(p, q, x) ==
    /\ q \in PoolStates /\ q.told = p.told /\ q.backlog = p.backlog /\ q.charges = p.charges
    /\ \A r \in Roles : IF r = x THEN Freed(p.member[r], q.member[r])
                        ELSE Alike(p.member[r], q.member[r])

\* Such a step keeps the pool sound, and role x has been replaced.
LEMMA Update ==
    ASSUME Counting,
           NEW p0, NEW p, NEW q, NEW s, NEW x, Sound(p0, p, s, x), Updates(p, q, x)
    PROVE  Sound(p0, q, s, 0)
<1>1. \A r \in Roles : IF r # x /\ Busy(p, r) THEN Alike(p.member[r], q.member[r])
                       ELSE Freed(p.member[r], q.member[r])
  BY DEF Updates, Busy, Alike, Freed
<1>2. Closes(p, q, {}, x, 0)
  BY <1>1, FiniteRoles DEF Updates, Closes
<1>3. QED BY <1>2, Close

\* A role that is not busy may be left to be replaced.
LEMMA Exempt ==
    ASSUME Counting, NEW p0, NEW p, NEW s, NEW r \in Roles, Sound(p0, p, s, 0), ~Busy(p, r)
    PROVE  Sound(p0, p, s, r)
<1>1. p \in PoolStates /\ 0 \notin Roles
  BY FiniteRoles DEF Sound
<1>2. Closes(p, p, {}, 0, r)
  BY <1>1 DEF Closes, Busy, Alike, Freed
<1>3. QED BY <1>2, Close

\* A queued job that precedes the others is given to a role that is not busy.
LEMMA Dispatched ==
    ASSUME Counting, NEW p0, NEW p, NEW s, Sound(p0, p, s, 0), NEW q \in PoolStates,
           NEW r \in Roles, NEW m, NEW j \in p.backlog,
           ~Busy(p, r), \A k \in p.backlog : j <= k, m.at = "Busy", m.job = j,
           q.member = [p.member EXCEPT ![r] = m], q.backlog = p.backlog \ {j},
           q.told = p.told, q.charges = p.charges
    PROVE  Sound(p0, q, s, 0)
<1>0. p \in PoolStates /\ Conserved(p, s, 0) /\ Ordered(p0, p) /\ Limited(p)
  BY DEF Sound
<1>1. OpenJobs(q) = OpenJobs(p) /\ r # 0 /\ p.backlog \subseteq Nat
  BY Zenon, <1>0, FiniteRoles, FiniteOpen DEF OpenJobs, PoolStates
<1>2. /\ q.member[r] = m /\ \A t \in Roles : t # r => q.member[t] = p.member[t]
      /\ ~Occupied(q.member[r])
  BY <1>0 DEF PoolStates, Occupied
<1>3. \A t \in Roles : t # r => (Busy(q, t) <=> Busy(p, t))
  BY <1>2 DEF Busy
<1>4. \A t \in Roles : t # r /\ Busy(q, t) => q.member[t].job \notin p.backlog
  BY <1>0, <1>2, <1>3, FiniteRoles DEF Conserved
<1>5. Conserved(q, s, 0)
  <2>1. \A t \in Roles \ {0} : Busy(q, t) =>
           q.member[t].job \in OpenJobs(q) /\ q.member[t].job \notin q.backlog
    BY <1>0, <1>1, <1>2, <1>3 DEF Conserved
  <2>2. \A t, u \in Roles \ {0} :
           Busy(q, t) /\ Busy(q, u) /\ q.member[t].job = q.member[u].job => t = u
    BY <1>0, <1>2, <1>3, <1>4 DEF Conserved
  <2>3. \A k \in OpenJobs(q) \ q.backlog :
           \E t \in Roles \ {0} : Busy(q, t) /\ q.member[t].job = k
    <3>1. SUFFICES ASSUME NEW k \in OpenJobs(q) \ q.backlog, k # j
                   PROVE  \E t \in Roles \ {0} : Busy(q, t) /\ q.member[t].job = k
      BY <1>1, <1>2 DEF Busy
    <3>2. PICK t \in Roles \ {0} : Busy(p, t) /\ p.member[t].job = k
      BY <1>0, <1>1, <3>1 DEF Conserved
    <3>3. QED BY <1>2, <1>3, <3>2
  <2>4. QED BY <1>0, <1>1, <2>1, <2>2, <2>3 DEF Conserved
<1>6. Limited(q)
  <2> DEFINE S == {t \in Roles : Occupied(p.member[t])}
             T == {t \in Roles : Occupied(q.member[t])}
  <2>1. T \subseteq S
    BY <1>2
  <2>2. Cardinality(T) <= Cardinality(S) /\ Cardinality(T) \in Nat /\ Cardinality(S) \in Nat
    BY <2>1, FiniteRoles, CountSubset
  <2>3. QED BY <1>0, <1>1, <2>2, PoolAssumption DEF Limited
<1>7. Ordered(p0, q)
  <2>1. \A k \in q.backlog : j < k
    BY <1>1
  <2>2. QED BY <1>0, <1>2, <1>3, <2>1 DEF Ordered
<1>8. QED BY <1>5, <1>6, <1>7 DEF Sound

Hands(p, u, r, j, m) ==
    /\ m \in Members /\ m.at = "Busy" /\ m.job = j
    /\ u \in PoolStates /\ u.member = [p.member EXCEPT ![r] = m]
    /\ u.backlog = p.backlog /\ u.told = p.told /\ u.charges = p.charges
    /\ u.mode = p.mode /\ u.conf = p.conf /\ u.source = p.source

\* A job is handed to a role.
LEMMA DispatchType ==
    ASSUME NEW p \in PoolStates, NEW r \in Roles, NEW j \in Jobs
    PROVE  Hands(p, DispatchTo(p, r, j), r, j, Assign(p.member[r], j))
<1> DEFINE m == Assign(p.member[r], j)
           w == With(p, r, m)
           d == [w EXCEPT !.assignments = @ - 1, !.cursor = r]
           u == Send(d, "assign", r, j)
<1>1. DispatchTo(p, r, j) = u
  BY DEF DispatchTo
<1>2. j \in 0 .. NJobs /\ r \in 0 .. NRoles /\ "assign" \in Ops /\ p.member[r] \in Members
  <2>1. j \in 0 .. NJobs /\ r \in 0 .. NRoles
    BY PoolAssumption DEF Jobs, Roles
  <2>2. QED BY <2>1 DEF Ops, PoolStates
<1>3. m \in Members /\ m.at = "Busy" /\ m.job = j
  BY Zenon, <1>2, Names DEF Assign, Members
<1> HIDE DEF m
<1>4. /\ w \in PoolStates /\ w.member = [p.member EXCEPT ![r] = m]
      /\ w.backlog = p.backlog /\ w.told = p.told /\ w.charges = p.charges
      /\ w.mode = p.mode /\ w.conf = p.conf /\ w.source = p.source
  BY <1>3, WithType
<1> HIDE DEF w
<1>5. w.assignments - 1 \in Int
  BY <1>4 DEF PoolStates
<1>6. d \in PoolStates
  BY Zenon, <1>2, <1>4, <1>5 DEF PoolStates
<1>7. /\ d.member = w.member /\ d.backlog = w.backlog /\ d.told = w.told
      /\ d.charges = w.charges /\ d.mode = w.mode /\ d.conf = w.conf /\ d.source = w.source
  BY <1>4 DEF PoolStates
<1> HIDE DEF d
<1>8. /\ u \in PoolStates /\ u.member = d.member /\ u.backlog = d.backlog
      /\ u.told = d.told /\ u.charges = d.charges /\ u.mode = d.mode /\ u.conf = d.conf
      /\ u.source = d.source
  BY <1>2, <1>6, SendType
<1> HIDE DEF u
<1>9. QED BY <1>1, <1>3, <1>4, <1>7, <1>8 DEF Hands, m

\* A round of dispatch, and any number of them.
Fills(p, q) ==
    /\ q.mode = p.mode /\ q.conf = p.conf /\ q.charges = p.charges
    /\ q.source = p.source /\ q.backlog \subseteq p.backlog
    /\ \A r \in Roles : \/ q.member[r] = p.member[r]
                        \/ p.member[r].at = "Idle" /\ q.member[r].at = "Busy"

\* A round takes the oldest queued job off the queue, for an idle worker if an
\* assignment can be issued and otherwise back to its customer.
LEMMA FillRound ==
    ASSUME Counting, NEW p0, NEW p, NEW s, Sound(p0, p, s, 0)
    PROVE  /\ Sound(p0, FillOne(p), s, 0) /\ Fills(p, FillOne(p))
           /\ \/ FillOne(p) = p /\ (AvailablePosition(p) = 0 \/ p.backlog = {})
              \/ /\ p.backlog # {}
                 /\ FillOne(p).backlog = p.backlog \ {Min(p.backlog)}
<1> DEFINE j == Min(p.backlog)
           r == AvailablePosition(p)
           m == Assign(p.member[r], j)
           q == [p EXCEPT !.backlog = @ \ {j}, !.retried = @ \ {j}]
<1>0. p \in PoolStates /\ Conserved(p, s, 0) /\ p.backlog \subseteq Nat
  BY FiniteOpen DEF Sound, PoolStates
<1>1. CASE r = 0 \/ p.backlog = {}
  <2>1. FillOne(p) = p
    BY <1>1 DEF FillOne
  <2>2. QED BY <1>1, <2>1 DEF Fills
<1>2. CASE ~(r = 0 \/ p.backlog = {})
  <2>1. j \in p.backlog /\ \A k \in p.backlog : j <= k
    BY <1>0, <1>2, Least
  <2>2. r \in Roles /\ p.member[r].at = "Idle"
    BY <1>0, <1>2, Available
  <2>3. /\ q \in PoolStates /\ q.backlog = p.backlog \ {j} /\ q.member = p.member
        /\ q.told = p.told /\ q.charges = p.charges /\ q.mode = p.mode /\ q.conf = p.conf
        /\ q.source = p.source /\ q.assignments = p.assignments
    BY Zenon, <1>0 DEF PoolStates
  <2>4. j \in Jobs /\ j \in 0 .. NJobs /\ p.told[j] = Open
    BY <1>0, <2>1 DEF Conserved, OpenJobs, Jobs
  <2> HIDE DEF j, r, q
  <2>7. CASE p.assignments > 0
    <3> DEFINE u == DispatchTo(q, r, j)
    <3>1. FillOne(p) = u
      BY <1>2, <2>7 DEF FillOne, j, r, q
    <3>2. Assign(q.member[r], j) = m
      BY <2>3
    <3>3. /\ m.at = "Busy" /\ m.job = j
          /\ u \in PoolStates /\ u.member = [p.member EXCEPT ![r] = m]
          /\ u.backlog = p.backlog \ {j} /\ u.told = p.told /\ u.charges = p.charges
          /\ u.mode = p.mode /\ u.conf = p.conf /\ u.source = p.source
      <4>1. Hands(q, u, r, j, m)
        BY <2>2, <2>3, <2>4, <3>2, DispatchType
      <4>2. QED BY <2>3, <4>1 DEF Hands
    <3> HIDE DEF u, m
    <3>5. Sound(p0, u, s, 0)
      BY <2>1, <2>2, <3>3, Dispatched DEF Busy
    <3>6. Fills(p, u)
      BY <1>0, <2>2, <3>3 DEF Fills, PoolStates
    <3>7. QED BY <1>2, <3>1, <3>3, <3>5, <3>6 DEF u, j
  <2>8. CASE ~(p.assignments > 0)
    <3> DEFINE o == IF j \in p.retried THEN "ReturnedAssigned" ELSE "ReturnedQueued"
               u == Deliver(q, j, o)
    <3>1. FillOne(p) = u
      BY <1>2, <2>8 DEF FillOne, j, r, q
    <3>2. o \in Terminal
      BY DEF Terminal
    <3> HIDE DEF o
    <3>3. /\ u \in PoolStates /\ u.told = [p.told EXCEPT ![j] = <<"Accepted", o>>]
          /\ <<"Accepted", o>> \in Ends
          /\ u.member = p.member /\ u.backlog = p.backlog \ {j} /\ u.charges = p.charges
          /\ u.mode = p.mode /\ u.conf = p.conf /\ u.source = p.source
      BY <2>3, <2>4, <3>2, DeliverType
    <3> HIDE DEF u
    <3> DEFINE J == {j}
    <3>5. J \subseteq OpenJobs(p) /\ u.backlog = p.backlog \ J
      BY <2>4, <3>3 DEF OpenJobs
    <3>6. \A k \in Jobs : IF k \in J THEN u.told[k] \in Ends ELSE u.told[k] = p.told[k]
      BY <1>0, <3>3 DEF PoolStates
    <3>7. \A t \in Roles \ {0} :
             IF t # 0 /\ Busy(p, t) /\ p.member[t].job \notin J
             THEN Alike(p.member[t], u.member[t]) ELSE Freed(p.member[t], u.member[t])
      BY <1>0, <2>1, <3>3 DEF Conserved, Busy, Alike, Freed
    <3> HIDE DEF J
    <3>8. Closes(p, u, J, 0, 0)
      BY <3>3, <3>5, <3>6, <3>7, FiniteRoles DEF Closes
    <3>9. Sound(p0, u, s, 0)
      BY <3>8, Close
    <3>10. QED BY <1>2, <3>1, <3>3, <3>9 DEF Fills, j
  <2>9. QED BY <2>7, <2>8
<1>3. QED BY <1>1, <1>2

\* Once the queue is filled, an idle worker means that nothing is queued.
LEMMA Filled ==
    ASSUME Counting, NEW p0, NEW p, NEW s, Sound(p0, p, s, 0)
    PROVE  /\ Sound(p0, FillFifo(p), s, 0) /\ Fills(p, FillFifo(p))
           /\ \/ FillFifo(p).backlog = {}
              \/ \A r \in Roles : FillFifo(p).member[r].at # "Idle"
<1> DEFINE S == {q \in PoolStates : Sound(p0, q, s, 0) /\ Fills(p, q)}
<1>0. NJobs \in Nat
  BY PoolAssumption
<1>1. p \in S
  BY DEF Sound, Fills
<1>2. \A q \in S : FillOne(q) \in S
  <2>1. SUFFICES ASSUME NEW q, Sound(p0, q, s, 0), Fills(p, q)
                 PROVE  FillOne(q) \in S
    OBVIOUS
  <2>2. Sound(p0, FillOne(q), s, 0) /\ Fills(q, FillOne(q))
    BY <2>1, FillRound
  <2>3. Fills(p, FillOne(q))
    BY <2>1, <2>2 DEF Fills
  <2>4. QED BY <2>2, <2>3 DEF Sound
<1>3. PICK f \in [0 .. NJobs -> S] :
             /\ f[0] = p /\ \A i \in 1 .. NJobs : f[i] = FillOne(f[i - 1])
             /\ FillFifo(p) = f[NJobs]
  <2> HIDE DEF S
  <2>1. QED BY <1>1, <1>2, FillRounds
<1> DEFINE T == {i \in 0 .. NJobs : \/ \A j \in f[i].backlog : i < j
                                    \/ AvailablePosition(f[i]) = 0}
<1>4. 0 \in T
  <2>1. \A j \in p.backlog : 0 < j
    BY DEF Sound, PoolStates, Jobs
  <2>2. QED BY <1>0, <1>3, <2>1
<1>5. ASSUME NEW i \in 0 .. NJobs, i < NJobs, i \in T PROVE i + 1 \in T
  <2> DEFINE q == f[i]
             b == q.backlog
  <2>1. i + 1 \in 1 .. NJobs /\ i + 1 \in 0 .. NJobs /\ i + 1 - 1 = i /\ i \in Nat
    BY <1>0, <1>5
  <2>2. f[i + 1] = FillOne(q)
    BY <1>3, <2>1
  <2>3. Sound(p0, q, s, 0) /\ b \subseteq Nat
    BY Zenon, <1>3, FiniteOpen DEF Sound, PoolStates
  <2> HIDE DEF q
  <2>4. \/ FillOne(q) = q /\ (AvailablePosition(q) = 0 \/ b = {})
        \/ b # {} /\ FillOne(q).backlog = b \ {Min(b)}
    BY Zenon, <2>3, FillRound
  <2>5. CASE AvailablePosition(q) = 0 \/ b = {}
    <3>1. FillOne(q) = q
      BY <2>5 DEF FillOne
    <3>2. QED BY <2>1, <2>2, <2>5, <3>1
  <2>6. CASE ~(AvailablePosition(q) = 0 \/ b = {})
    <3>1. \A j \in b : i < j
      BY <1>5, <2>6 DEF q
    <3>2. Min(b) \in b /\ \A j \in b : Min(b) <= j
      BY <2>3, <2>6, Least
    <3>3. \A j \in b \ {Min(b)} : i + 1 < j
      BY <2>1, <2>3, <3>1, <3>2
    <3>4. QED BY <2>1, <2>2, <2>4, <2>6, <3>3
  <2>7. QED BY <2>5, <2>6
<1>6. 0 .. NJobs \subseteq T
  <2> HIDE DEF T
  <2>1. Climbs(T, NJobs)
    BY Zenon, <1>4, <1>5 DEF Climbs
  <2>2. QED BY <1>0, <2>1, UpTo
<1>7. NJobs \in T /\ f[NJobs] \in S
  BY <1>0, <1>3, <1>6
<1> DEFINE u == f[NJobs]
<1>8. u \in PoolStates /\ Sound(p0, u, s, 0) /\ Fills(p, u)
  BY <1>7
<1>9. (\A j \in u.backlog : NJobs < j) => u.backlog = {}
  BY <1>0, <1>8 DEF PoolStates, Jobs
<1>10. u.backlog = {} \/ AvailablePosition(u) = 0
  BY <1>7, <1>9
<1> HIDE DEF u
<1>11. AvailablePosition(u) = 0 => \A r \in Roles : u.member[r].at # "Idle"
  BY <1>8, Available, FiniteRoles
<1>12. QED BY <1>3, <1>8, <1>10, <1>11 DEF u

-----------------------------------------------------------------------------
(* Jobs that go back, and the shutdown of the pool.                          *)

Tells(p, d, J, t) ==
    /\ d \in PoolStates /\ <<"Accepted", t>> \in Ends
    /\ \A j \in Jobs : d.told[j] = IF j \in J THEN <<"Accepted", t>> ELSE p.told[j]
    /\ d.member = p.member /\ d.backlog = p.backlog /\ d.mode = p.mode /\ d.conf = p.conf
    /\ d.charges = p.charges /\ d.source = p.source

\* Several accepted jobs are told the same end.
LEMMA DeliverAllType ==
    ASSUME NEW p \in PoolStates, NEW J, J \subseteq OpenJobs(p), NEW t \in Terminal
    PROVE  Tells(p, DeliverAll(p, J, t), J, t)
<1> DEFINE f == [j \in Jobs |-> IF j \in J THEN Append(p.told[j], t) ELSE p.told[j]]
<1>1. Append(Open, t) = <<"Accepted", t>> /\ <<"Accepted", t>> \in Ends
  BY Tuples DEF Open, Ends
<1>2. \A j \in J : p.told[j] = Open
  BY DEF OpenJobs
<1>3. \A j \in Jobs : f[j] = IF j \in J THEN <<"Accepted", t>> ELSE p.told[j]
  BY Zenon, <1>1, <1>2
<1>4. f \in [Jobs -> {<<>>, Open} \cup Ends]
  BY <1>1, <1>3 DEF PoolStates
<1>5. DeliverAll(p, J, t) = [p EXCEPT !.told = f]
  BY DEF DeliverAll, PoolStates
<1> HIDE DEF f
<1>6. QED BY Zenon, <1>1, <1>3, <1>4, <1>5 DEF PoolStates, Tells

\* With no role left to serve them, the queued jobs go back.
LEMMA Unrecoverable ==
    ASSUME Counting, NEW p0, NEW p, NEW s, Sound(p0, p, s, 0)
    PROVE  /\ Sound(p0, ReturnUnrecoverableJobs(p), s, 0)
           /\ ReturnUnrecoverableJobs(p).mode = p.mode
           /\ \/ ReturnUnrecoverableJobs(p).backlog = {}
              \/ /\ ReturnUnrecoverableJobs(p) = p
                 /\ \E r \in Roles : p.member[r].at # "Retired"
<1> DEFINE d == DeliverAll(p, p.backlog, "ReturnedQueued")
           q == [d EXCEPT !.backlog = {}, !.retried = {}]
           J == p.backlog
<1>1. CASE Recoverable(p)
  BY <1>1 DEF ReturnUnrecoverableJobs, Recoverable
<1>2. CASE ~Recoverable(p)
  <2>1. ReturnUnrecoverableJobs(p) = q
    BY <1>2 DEF ReturnUnrecoverableJobs
  <2>2. p \in PoolStates /\ Conserved(p, s, 0) /\ J \subseteq OpenJobs(p)
    BY DEF Sound, Conserved
  <2>3. "ReturnedQueued" \in Terminal
    BY DEF Terminal
  <2>4. /\ d \in PoolStates /\ <<"Accepted", "ReturnedQueued">> \in Ends
        /\ \A j \in Jobs : d.told[j] =
              IF j \in J THEN <<"Accepted", "ReturnedQueued">> ELSE p.told[j]
        /\ d.member = p.member /\ d.mode = p.mode /\ d.charges = p.charges
    <3>1. Tells(p, d, J, "ReturnedQueued")
      BY <2>2, <2>3, DeliverAllType
    <3> HIDE DEF d, J
    <3>2. QED BY <3>1 DEF Tells
  <2> HIDE DEF d
  <2>5. /\ q \in PoolStates /\ q.told = d.told /\ q.member = p.member /\ q.backlog = {}
        /\ q.mode = p.mode /\ q.charges = p.charges
    BY Zenon, <2>4 DEF PoolStates
  <2> HIDE DEF q
  <2>6. \A r \in Roles \ {0} :
           IF r # 0 /\ Busy(p, r) /\ p.member[r].job \notin J
           THEN Alike(p.member[r], q.member[r]) ELSE Freed(p.member[r], q.member[r])
    BY <2>2, <2>5 DEF Conserved, Busy, Alike, Freed
  <2>7. q.backlog = p.backlog \ J
    BY <2>5
  <2>8. Closes(p, q, J, 0, 0)
    <3> HIDE DEF J
    <3>1. \A j \in Jobs : IF j \in J THEN q.told[j] \in Ends ELSE q.told[j] = p.told[j]
      BY Zenon, <2>4, <2>5
    <3>2. QED BY Zenon, <2>2, <2>5, <2>6, <2>7, <3>1, FiniteRoles DEF Closes
  <2>9. Sound(p0, q, s, 0)
    BY <2>8, Close
  <2>10. QED BY <2>1, <2>5, <2>9
<1>3. QED BY <1>1, <1>2

\* A pool that shuts down ends every open job.
LEMMA ShutdownEnds ==
    ASSUME Counting, NEW p0, NEW p, NEW s, Sound(p0, p, s, 0)
    PROVE  Sound(p0, BeginShutdown(p), s, 0) /\ BeginShutdown(p).mode # "Operating"
<1> DEFINE targets  == {r \in Roles : ShutdownTarget(p.member[r])}
           reserved == Cardinality(targets) <= p.shutdowns
           busy     == {r \in Roles : p.member[r].at = "Busy"}
           members  == [r \in Roles |-> Shutdown(p.member[r], reserved)]
           B        == {p.member[r].job : r \in busy}
           first    == DeliverAll(p, p.backlog, "ReturnedQueued")
           returned == DeliverAll(first, B, "ReturnedAssigned")
           requests == IF reserved
                       THEN {Req("shutdown", {WorkerOf(p, r)}, NoJob) : r \in targets}
                       ELSE {}
           drained  == \A r \in Roles : ~Waiting(members[r])
           schedule == IF reserved /\ ~drained /\ p.conf.limited
                       THEN {Req("schedule", {}, NoJob)} ELSE {}
           mode     == IF ~reserved THEN "ForcedRetirement"
                       ELSE IF drained THEN "Stopped" ELSE "Draining"
           shutdowns == IF reserved THEN returned.shutdowns - Cardinality(targets)
                        ELSE returned.shutdowns
           deadline == IF reserved /\ ~drained THEN DeadlineBegin(p.conf.limited)
                       ELSE returned.deadline
           sent     == returned.sent \cup requests \cup schedule
           q == [returned EXCEPT !.mode = mode, !.member = members, !.backlog = {},
                   !.retried = {}, !.shutdowns = shutdowns, !.deadline = deadline,
                   !.sent = sent]
           J == OpenJobs(p)
<1>1. BeginShutdown(p) = q
  BY DEF BeginShutdown
<1>2. p \in PoolStates /\ Conserved(p, s, 0) /\ p.backlog \subseteq J /\ J \subseteq Jobs
  BY Zenon DEF Sound, Conserved, OpenJobs
<1>3. \A j \in Jobs : j \in B <=> j \in J \ p.backlog
  BY <1>2, FiniteRoles DEF Conserved, Busy
<1>4. {"ReturnedQueued", "ReturnedAssigned"} \subseteq Terminal
  BY DEF Terminal
<1>5. /\ first \in PoolStates /\ <<"Accepted", "ReturnedQueued">> \in Ends
      /\ \A j \in Jobs : first.told[j] =
            IF j \in p.backlog THEN <<"Accepted", "ReturnedQueued">> ELSE p.told[j]
      /\ first.charges = p.charges
  <2>1. Tells(p, first, p.backlog, "ReturnedQueued")
    BY <1>2, <1>4, DeliverAllType
  <2> HIDE DEF first
  <2>2. QED BY <2>1 DEF Tells
<1>6. B \subseteq OpenJobs(first)
  <2>1. B \subseteq Jobs
    BY <1>2, FiniteRoles DEF Conserved, Busy
  <2>2. QED BY <1>3, <1>5, <2>1 DEF OpenJobs
<1> HIDE DEF first
<1>7. /\ returned \in PoolStates /\ <<"Accepted", "ReturnedAssigned">> \in Ends
      /\ \A j \in Jobs : returned.told[j] =
            IF j \in B THEN <<"Accepted", "ReturnedAssigned">> ELSE first.told[j]
      /\ returned.charges = p.charges
  <2> HIDE DEF B
  <2>1. Tells(first, returned, B, "ReturnedAssigned")
    BY <1>4, <1>5, <1>6, DeliverAllType
  <2> HIDE DEF returned
  <2>2. QED BY <1>5, <2>1 DEF Tells
<1> HIDE DEF returned
<1>8. \A j \in Jobs : IF j \in J THEN returned.told[j] \in Ends
                      ELSE returned.told[j] = p.told[j]
  BY <1>2, <1>3, <1>5, <1>7
<1>9. Cardinality(targets) \in Nat
  BY FiniteRoles
<1>10. /\ members \in [Roles -> Members]
       /\ \A r \in Roles : members[r].at \in RetirementStatuses
  <2>1. reserved \in BOOLEAN /\ \A r \in Roles : p.member[r] \in Members
    BY <1>2, <1>9 DEF PoolStates
  <2> HIDE DEF reserved
  <2>2. QED BY <2>1, ShutdownType
<1>11. requests \subseteq Requests /\ schedule \subseteq Requests
  <2>1. \A r \in Roles : WorkerOf(p, r) \in Workers
    BY <1>2 DEF WorkerOf, Workers, PoolStates, Members
  <2>2. \A of \in SUBSET Workers :
           Req("shutdown", of, NoJob) \in Requests /\ Req("schedule", of, NoJob) \in Requests
    BY Names DEF Req, Requests, Ops
  <2>3. QED BY Zenon, <2>1, <2>2
<1>12. mode \in {"Draining", "Stopped", "ForcedRetirement"}
  OBVIOUS
<1>13. deadline \in Deadlines
  BY <1>7 DEF DeadlineBegin, Deadlines, PoolStates
<1>14. shutdowns \in Int
  BY <1>7, <1>9 DEF PoolStates
<1>15. sent \subseteq Requests
  BY Zenon, <1>7, <1>11 DEF PoolStates
<1> HIDE DEF mode, members, shutdowns, deadline, sent, J
<1>16. /\ q \in PoolStates /\ q.told = returned.told /\ q.member = members /\ q.backlog = {}
       /\ q.mode = mode /\ q.charges = p.charges
  BY Zenon, <1>7, <1>10, <1>12, <1>13, <1>14, <1>15 DEF PoolStates
<1> HIDE DEF q
<1>17. \A r \in Roles : Freed(p.member[r], q.member[r])
  BY <1>10, <1>16 DEF Freed, Occupied, RetirementStatuses
<1>18. \A r \in Roles : Busy(p, r) => p.member[r].job \in J
  BY <1>2, FiniteRoles DEF Conserved, J
<1>19. Closes(p, q, J, 0, 0)
  BY Zenon, <1>2, <1>8, <1>16, <1>17, <1>18, FiniteRoles DEF Closes, J
<1>20. Sound(p0, q, s, 0)
  BY <1>19, Close
<1>21. QED BY <1>1, <1>12, <1>16, <1>20

-----------------------------------------------------------------------------
(* Recovery of one role.                                                     *)

\* The state a fold may leave behind.
Good(p0, q, s) == Sound(p0, q, s, 0) /\ Served(q)

\* A role's record is replaced by one that is not busy.
LEMMA Replaced ==
    ASSUME Counting,
           NEW p0, NEW p, NEW s, NEW r \in Roles, Sound(p0, p, s, r), NEW m \in Members,
           m.at # "Busy", ~Occupied(m)
    PROVE  Sound(p0, With(p, r, m), s, 0)
<1> DEFINE q == With(p, r, m)
<1>1. p \in PoolStates
  BY DEF Sound
<1>2. /\ q \in PoolStates /\ q.member = [p.member EXCEPT ![r] = m]
      /\ q.told = p.told /\ q.backlog = p.backlog /\ q.charges = p.charges
  BY <1>1, WithType
<1> HIDE DEF q
<1>3. /\ q.member[r] = m /\ \A t \in Roles : t # r => q.member[t] = p.member[t]
  BY <1>1, <1>2 DEF PoolStates
<1>4. Updates(p, q, r)
  BY <1>2, <1>3 DEF Updates, Freed, Alike
<1>5. QED BY <1>4, Update DEF q

\* Identifiers are spent, the source is lent or comes back, requests are sent:
\* nothing that the members, the jobs or the budget depend on.
Alters(p, q) ==
    /\ q \in PoolStates /\ q.member = p.member /\ q.told = p.told /\ q.backlog = p.backlog
    /\ q.charges = p.charges /\ q.mode = p.mode /\ q.conf = p.conf

\* Such a step keeps the pool sound.
LEMMA Altered ==
    ASSUME NEW p0, NEW p, NEW q, NEW s, NEW x, Sound(p0, p, s, x), Alters(p, q)
    PROVE  Sound(p0, q, s, x)
<1>1. OpenJobs(q) = OpenJobs(p) /\ \A r \in Roles : Busy(q, r) <=> Busy(p, r)
  BY DEF Alters, OpenJobs, Busy
<1>2. Conserved(q, s, x)
  BY <1>1 DEF Sound, Conserved, Alters
<1>3. Limited(q)
  BY <1>1 DEF Sound, Limited, Alters
<1>4. Ordered(p0, q)
  BY <1>1 DEF Sound, Ordered, Alters
<1>5. QED BY <1>2, <1>3, <1>4 DEF Sound, Alters

\* Steps that alter nothing of that kind.
LEMMA Alterations ==
    ASSUME Counting, NEW p \in PoolStates
    PROVE  /\ \A v \in {"Available", "AwaitingReturn"} : Alters(p, [p EXCEPT !.source = v])
           /\ Alters(p, [p EXCEPT !.shutdowns = @ - 1])
           /\ Alters(p, [p EXCEPT !.creations = @ - 1])
           /\ Alters(p, [p EXCEPT !.timers = @ - 1])
           /\ Alters(p, [p EXCEPT !.jobs = @ - 1])
           /\ \A r \in Roles, op \in Ops, j \in 0 .. NJobs : Alters(p, Send(p, op, r, j))
           /\ \A d \in Deadlines : Alters(p, [p EXCEPT !.deadline = d])
<1>1. \A v \in {"Available", "AwaitingReturn"} : Alters(p, [p EXCEPT !.source = v])
  BY Zenon DEF Alters, PoolStates
<1>2. \A i \in {p.shutdowns, p.creations, p.timers, p.jobs} : i \in Int /\ i - 1 \in Int
  BY DEF PoolStates
<1>3. Alters(p, [p EXCEPT !.shutdowns = @ - 1])
  BY Zenon, <1>2 DEF Alters, PoolStates
<1>4. Alters(p, [p EXCEPT !.creations = @ - 1])
  BY Zenon, <1>2 DEF Alters, PoolStates
<1>5. Alters(p, [p EXCEPT !.timers = @ - 1])
  BY Zenon, <1>2 DEF Alters, PoolStates
<1>6. Alters(p, [p EXCEPT !.jobs = @ - 1])
  BY Zenon, <1>2 DEF Alters, PoolStates
<1>7. \A r \in Roles, op \in Ops, j \in 0 .. NJobs : Alters(p, Send(p, op, r, j))
  BY SendType DEF Alters
<1>8. \A d \in Deadlines : Alters(p, [p EXCEPT !.deadline = d])
  BY DEF Alters, PoolStates
<1>9. QED BY <1>1, <1>3, <1>4, <1>5, <1>6, <1>7, <1>8

\* Role r takes the record m, and nothing else of that kind changes.
Moves(p, u, r, m) ==
    /\ u.member[r] = m /\ \A t \in Roles : t # r => u.member[t] = p.member[t]
    /\ u.mode = p.mode /\ u.conf = p.conf /\ u.backlog = p.backlog
    /\ u.charges = p.charges

\* A role takes a new record and a request is sent for it.
LEMMA Requested ==
    ASSUME Counting,
           NEW p0, NEW p, NEW q, NEW s, NEW r \in Roles, NEW m \in Members, NEW op \in Ops,
           Sound(p0, p, s, r), m.at # "Busy", ~Occupied(m), Alters(With(p, r, m), q)
    PROVE  /\ Sound(p0, Send(q, op, r, NoJob), s, 0)
           /\ Moves(p, Send(q, op, r, NoJob), r, m)
<1> DEFINE w == With(p, r, m)
           u == Send(q, op, r, NoJob)
<1>1. p \in PoolStates
  BY DEF Sound
<1>2. /\ w \in PoolStates /\ w.member = [p.member EXCEPT ![r] = m] /\ w.mode = p.mode
      /\ w.conf = p.conf /\ w.backlog = p.backlog /\ w.charges = p.charges
  BY <1>1, WithType
<1>3. Sound(p0, w, s, 0)
  BY Replaced
<1> HIDE DEF w
<1>4. Sound(p0, q, s, 0) /\ q \in PoolStates
  BY <1>3, Altered DEF w, Alters
<1>5. Alters(q, u)
  BY Zenon, <1>4, Names, Alterations
<1> HIDE DEF u
<1>6. Sound(p0, u, s, 0)
  BY <1>4, <1>5, Altered
<1>7. /\ u.member = [p.member EXCEPT ![r] = m] /\ u.mode = p.mode /\ u.conf = p.conf
      /\ u.backlog = p.backlog /\ u.charges = p.charges
  BY <1>2, <1>5 DEF Alters, w
<1>8. u.member[r] = m /\ \A t \in Roles : t # r => u.member[t] = p.member[t]
  BY <1>1, <1>7 DEF PoolStates
<1>9. QED BY Zenon, <1>6, <1>7, <1>8 DEF u, Moves

\* The queue is filled while some role may serve it.
LEMMA FilledServed ==
    ASSUME Counting, NEW p0, NEW p, NEW s, Sound(p0, p, s, 0), NEW t \in Roles,
           p.member[t].at # "Retired"
    PROVE  Good(p0, FillFifo(p), s) /\ FillFifo(p).mode = p.mode
<1> DEFINE q == FillFifo(p)
<1>1. Sound(p0, q, s, 0) /\ Fills(p, q)
  BY Filled
<1>2. q.backlog = {} \/ \A r \in Roles : q.member[r].at # "Idle"
  BY Zenon, Filled
<1> HIDE DEF q
<1>3. q.member[t].at # "Retired"
  BY <1>1 DEF Fills
<1>4. QED BY <1>1, <1>2, <1>3 DEF Good, Served, Fills, q

\* The queue is filled, or emptied if no role may serve it.
LEMMA FilledReturned ==
    ASSUME Counting, NEW p0, NEW p, NEW s, Sound(p0, p, s, 0)
    PROVE  LET q == ReturnUnrecoverableJobs(FillFifo(p))
           IN  Good(p0, q, s) /\ q.mode = p.mode
<1> DEFINE f == FillFifo(p)
           q == ReturnUnrecoverableJobs(f)
<1>1. Sound(p0, f, s, 0) /\ f.mode = p.mode
  BY Filled DEF Fills
<1>2. f.backlog = {} \/ \A r \in Roles : f.member[r].at # "Idle"
  BY Zenon, Filled
<1> HIDE DEF f
<1>3. /\ Sound(p0, q, s, 0) /\ q.mode = f.mode
      /\ q.backlog = {} \/ (q = f /\ \E r \in Roles : f.member[r].at # "Retired")
  BY <1>1, Unrecoverable
<1> HIDE DEF q
<1>4. QED BY <1>1, <1>2, <1>3 DEF Good, Served, q, f

\* The source is lent to a role.
LEMMA PreparationRequested ==
    ASSUME Counting, NEW p0, NEW p, NEW s, NEW r \in Roles, Sound(p0, p, s, r)
    PROVE  LET u == RequestPreparation(p, r)
           IN  /\ Sound(p0, u, s, 0) /\ u.member[r].at = "Preparing"
               /\ \A t \in Roles : t # r => u.member[t] = p.member[t]
               /\ u.mode = p.mode /\ u.conf = p.conf /\ u.backlog = p.backlog
<1> DEFINE m == At(p.member[r], "Preparing", "Issued")
           w == With(p, r, m)
           q == [w EXCEPT !.source = "AwaitingReturn"]
<1>1. RequestPreparation(p, r) = Send(q, "prepare", r, NoJob)
  BY DEF RequestPreparation
<1>2. p \in PoolStates /\ p.member[r] \in Members /\ "prepare" \in Ops
  BY Zenon DEF Sound, PoolStates, Ops
<1>3. m \in Members /\ m.at = "Preparing"
  BY <1>2, Records
<1>4. m.at # "Busy" /\ ~Occupied(m)
  BY <1>3 DEF Occupied
<1> HIDE DEF m
<1>5. w \in PoolStates
  BY Zenon, <1>2, <1>3, WithType
<1>6. Alters(w, q)
  <2> HIDE DEF w
  <2>1. QED BY Zenon, <1>5, Alterations
<1> HIDE DEF q
<1> DEFINE u == Send(q, "prepare", r, NoJob)
<1>7. Sound(p0, u, s, 0) /\ Moves(p, u, r, m)
  BY Zenon, <1>2, <1>3, <1>4, <1>6, Requested
<1> HIDE DEF u
<1>8. QED BY <1>1, <1>3, <1>7 DEF u, Moves

\* The next role that waits for the source gets it.
LEMMA NextPrepared ==
    ASSUME Counting, NEW p0, NEW p, NEW s, Sound(p0, p, s, 0)
    PROVE  LET u == PrepareNextWaiting(p)
           IN  /\ Sound(p0, u, s, 0)
               /\ \A t \in Roles : \/ u.member[t] = p.member[t]
                                   \/ u.member[t].at = "Preparing"
               /\ u.mode = p.mode /\ u.conf = p.conf /\ u.backlog = p.backlog
<1> DEFINE S == {t \in Roles : p.member[t].at = "WaitingForSource"}
           r == First(S)
<1>1. CASE r = 0 \/ p.source # "Available"
  BY Zenon, <1>1 DEF PrepareNextWaiting
<1>2. CASE ~(r = 0 \/ p.source # "Available")
  <2>1. PrepareNextWaiting(p) = RequestPreparation(p, r)
    BY <1>2 DEF PrepareNextWaiting
  <2>2. S # {} /\ S \subseteq Nat
    BY Zenon, <1>2, FiniteRoles DEF First
  <2>3. r \in S
    <3> HIDE DEF S
    <3>1. QED BY Zenon, <2>2, Least DEF First
  <2>4. r \in Roles /\ ~Busy(p, r)
    BY <2>3 DEF Busy
  <2> HIDE DEF r
  <2>5. Sound(p0, p, s, r)
    BY <2>4, Exempt
  <2>6. QED BY <2>1, <2>4, <2>5, PreparationRequested
<1>3. QED BY <1>1, <1>2

\* A role that cannot be recovered is retired, or stops the pool.
LEMMA RoleRetired ==
    ASSUME Counting, NEW p0, NEW p, NEW s, NEW r \in Roles, Sound(p0, p, s, r)
    PROVE  Good(p0, RetireRoleAfterError(p, r), s)
<1> DEFINE q == With(p, r, Retire(p.member[r]))
           u == PrepareNextWaiting(q)
<1>1. p.member[r] \in Members
  BY DEF Sound, PoolStates
<1>2. /\ Retire(p.member[r]) \in Members /\ Retire(p.member[r]).at = "Retired"
  BY <1>1, Records
<1>3. Sound(p0, q, s, 0)
  BY <1>2, Replaced DEF Occupied
<1> HIDE DEF q
<1>4. Sound(p0, u, s, 0)
  BY <1>3, NextPrepared
<1> HIDE DEF u
<1>5. Good(p0, BeginShutdown(q), s)
  BY <1>3, ShutdownEnds DEF Good, Served
<1>6. Good(p0, ReturnUnrecoverableJobs(FillFifo(u)), s)
  BY <1>4, FilledReturned
<1>7. QED BY <1>5, <1>6 DEF RetireRoleAfterError, q, u

\* The stop of a worker is decided.
LEMMA Recovered ==
    ASSUME Counting, NEW p0, NEW p, NEW s, NEW r \in Roles, Sound(p0, p, s, r)
    PROVE  Good(p0, RecoverWorker(p, r), s)
<1> DEFINE m        == p.member[r]
           decision == Decide(p.conf.policy, p.conf.failure, p.source, m.stop)
           retired  == With(p, r, Retire(m))
           waiting  == With(p, r, At(m, "WaitingForSource", NoSub))
           prepared == RequestPreparation(p, r)
<1>1. p \in PoolStates /\ m \in Members
  BY DEF Sound, PoolStates
<1>2. decision \in {"PrepareWorker", "WaitForSource", "RetireRole", "StopPool"}
  BY <1>1, PoolAssumption DEF PoolStates, Decide
<1>3. /\ RecoverWorker(p, r) = CASE decision = "PrepareWorker" -> FillFifo(prepared)
          [] decision = "WaitForSource" -> FillFifo(waiting)
          [] decision = "RetireRole" -> ReturnUnrecoverableJobs(FillFifo(retired))
          [] decision = "StopPool" -> BeginShutdown(retired)
  BY DEF RecoverWorker
<1> HIDE DEF decision
<1>4. Good(p0, FillFifo(prepared), s)
  <2>1. Sound(p0, prepared, s, 0) /\ prepared.member[r].at = "Preparing"
    BY PreparationRequested
  <2> HIDE DEF prepared
  <2>2. QED BY <2>1, FilledServed
<1>5. Good(p0, FillFifo(waiting), s)
  <2> DEFINE n == At(m, "WaitingForSource", NoSub)
  <2>1. n \in Members /\ n.at = "WaitingForSource"
    BY <1>1, Records
  <2>2. n.at # "Busy" /\ ~Occupied(n)
    BY <2>1 DEF Occupied
  <2> HIDE DEF n
  <2>3. Sound(p0, With(p, r, n), s, 0)
    BY <2>1, <2>2, Replaced
  <2>4. With(p, r, n).member[r] = n
    BY <1>1 DEF PoolStates, With
  <2> DEFINE w == With(p, r, n)
  <2> HIDE DEF w
  <2>5. Good(p0, FillFifo(w), s)
    BY <2>1, <2>3, <2>4, FilledServed DEF w
  <2>6. QED BY <2>5 DEF w, n
<1>6. Sound(p0, retired, s, 0)
  <2>1. Retire(m) \in Members /\ Retire(m).at = "Retired"
    BY <1>1, Records
  <2>2. QED BY <2>1, Replaced DEF Occupied
<1> HIDE DEF retired
<1>7. Good(p0, ReturnUnrecoverableJobs(FillFifo(retired)), s)
  BY <1>6, FilledReturned
<1>8. Good(p0, BeginShutdown(retired), s)
  BY <1>6, ShutdownEnds DEF Good, Served
<1> HIDE DEF prepared, waiting
<1>9. QED BY <1>2, <1>3, <1>4, <1>5, <1>7, <1>8

\* Of finitely many waiting roles, those with fewer than n before them are at
\* most n.
LEMMA Prefix ==
    ASSUME Counting, NEW W \in SUBSET Roles, NEW n \in Nat
    PROVE  LET R == {r \in W : Cardinality({t \in W : t < r}) < n}
           IN  Cardinality(R) \in Nat /\ Cardinality(R) <= n
<1> DEFINE R == {r \in W : Cardinality({t \in W : t < r}) < n}
           D == {NRoles - r : r \in R}
<1>1. IsFiniteSet(R) /\ Cardinality(R) \in Nat /\ R \subseteq Roles
  BY Zenon, FiniteRoles
<1>2. CASE R = {}
  <2>1. Cardinality({}) = 0
    BY CountEmpty
  <2>2. Cardinality(R) = 0
    BY Zenon, <1>2, <2>1
  <2> HIDE DEF R
  <2>3. QED BY <2>2 DEF R
<1>3. CASE R # {}
  <2>1. D \subseteq Nat /\ D # {}
    <3> HIDE DEF R
    <3>1. \A r \in R : NRoles - r \in Nat
      BY <1>1, PoolAssumption DEF Roles
    <3>2. QED BY <1>3, <3>1
  <2>2. PICK d \in D : \A e \in D : d <= e
    <3> HIDE DEF D
    <3>1. QED BY Zenon, <2>1, Least
  <2>3. PICK x \in R : d = NRoles - x
    BY <2>2
  <2>4. \A r \in R : r <= x
    <3>1. \A r \in R : NRoles - x <= NRoles - r
      BY Zenon, <2>2, <2>3
    <3>2. QED BY <1>1, <2>3, <3>1, PoolAssumption DEF Roles
  <2> DEFINE B == {t \in W : t < x}
  <2>5. Cardinality(B) < n
    BY <2>3
  <2>6. R \ {x} \subseteq B
    BY <1>1, <2>3, <2>4 DEF Roles
  <2>7. IsFiniteSet(B) /\ Cardinality(B) \in Nat
    BY FiniteRoles
  <2> HIDE DEF R, B
  <2>8. Cardinality(R \ {x}) <= Cardinality(B)
    BY <2>6, <2>7, CountSubset
  <2>9. Cardinality(R \ {x}) = Cardinality(R) - 1
    BY Zenon, <1>1, <2>3, CountRemoved
  <2>10. Cardinality(R) <= n
    BY <1>1, <2>5, <2>7, <2>8, <2>9
  <2>11. QED BY <1>1, <2>10 DEF R
<1>4. QED BY <1>2, <1>3

\* Waiting roles are authorized to start, within the limit.
LEMMA Authorized ==
    ASSUME Counting, NEW p0, NEW p, NEW s, Good(p0, p, s)
    PROVE  Good(p0, AuthorizeWaiting(p), s)
<1> DEFINE O         == {r \in Roles : Occupied(p.member[r])}
           occupied  == Cardinality(O)
           waiting   == {r \in Roles : p.member[r].at = "WaitingForStartup"}
           available == IF occupied >= StartupLimit THEN 0 ELSE StartupLimit - occupied
           released  == {r \in waiting : Cardinality({t \in waiting : t < r}) < available}
           members   == [r \in Roles |-> IF r \in released
                                         THEN AuthorizeStartup(p.member[r]) ELSE p.member[r]]
           starts    == {Req("start", {WorkerOf(p, r)}, NoJob) : r \in released}
           sent      == p.sent \cup starts
           q         == [p EXCEPT !.member = members, !.sent = sent]
<1>0. Sound(p0, p, s, 0) /\ Served(p)
  BY DEF Good
<1>1. /\ p \in PoolStates /\ Conserved(p, s, 0) /\ Limited(p) /\ Ordered(p0, p)
      /\ \A r \in Roles : p.member[r] \in Members
  BY <1>0 DEF Sound, PoolStates
<1>2. AuthorizeWaiting(p) = q
  BY DEF AuthorizeWaiting
<1>3. /\ occupied \in Nat /\ occupied <= StartupLimit /\ StartupLimit \in Nat
      /\ IsFiniteSet(O)
  BY <1>1, FiniteRoles, PoolAssumption DEF Limited
<1>4. available \in Nat /\ occupied + available <= StartupLimit /\ waiting \in SUBSET Roles
  BY <1>3
<1>5. Cardinality(released) \in Nat /\ Cardinality(released) <= available
  <2> HIDE DEF available, waiting
  <2>1. QED BY Zenon, <1>4, Prefix
<1>6. IsFiniteSet(released) /\ released \subseteq waiting /\ released \subseteq Roles
  BY Zenon, FiniteRoles
<1>7. \A r \in released : p.member[r].at = "WaitingForStartup"
  OBVIOUS
<1> HIDE DEF released, available, occupied
<1>8. \A r \in Roles : AuthorizeStartup(p.member[r]) \in Members
                       /\ AuthorizeStartup(p.member[r]).at = "StartupRequested"
  BY <1>1, Records DEF AuthorizeStartup
<1>9. members \in [Roles -> Members]
  BY <1>1, <1>8
<1>10. \A r \in Roles :
         IF r \in released
         THEN members[r].at = "StartupRequested" /\ p.member[r].at = "WaitingForStartup"
         ELSE members[r] = p.member[r]
  BY <1>7, <1>8
<1>11. starts \subseteq Requests
  <2>1. \A r \in Roles : WorkerOf(p, r) \in Workers
    BY <1>1 DEF WorkerOf, Workers, Members
  <2>2. \A of \in SUBSET Workers : Req("start", of, NoJob) \in Requests
    BY Names DEF Req, Requests, Ops
  <2>3. QED BY Zenon, <1>6, <2>1, <2>2
<1>12. sent \subseteq Requests
  BY Zenon, <1>1, <1>11 DEF PoolStates
<1> HIDE DEF members, sent
<1>13. /\ q \in PoolStates /\ q.member = members /\ q.told = p.told /\ q.backlog = p.backlog
       /\ q.charges = p.charges /\ q.mode = p.mode
  BY Zenon, <1>1, <1>9, <1>12 DEF PoolStates
<1> HIDE DEF q
<1>14. /\ OpenJobs(q) = OpenJobs(p)
       /\ \A r \in Roles : Busy(q, r) <=> Busy(p, r)
       /\ \A r \in Roles : Busy(p, r) => q.member[r] = p.member[r]
  BY <1>10, <1>13 DEF OpenJobs, Busy
<1>15. Conserved(q, s, 0)
  <2>1. \A r \in Roles \ {0} : Busy(q, r) =>
           q.member[r].job \in OpenJobs(q) /\ q.member[r].job \notin q.backlog
    BY <1>1, <1>13, <1>14 DEF Conserved
  <2>2. \A r, t \in Roles \ {0} :
           Busy(q, r) /\ Busy(q, t) /\ q.member[r].job = q.member[t].job => r = t
    BY <1>1, <1>14 DEF Conserved
  <2>3. \A j \in OpenJobs(q) \ q.backlog :
           \E r \in Roles \ {0} : Busy(q, r) /\ q.member[r].job = j
    <3>1. SUFFICES ASSUME NEW j \in OpenJobs(p) \ p.backlog
                   PROVE  \E r \in Roles \ {0} : Busy(q, r) /\ q.member[r].job = j
      BY <1>13, <1>14
    <3>2. PICK r \in Roles \ {0} : Busy(p, r) /\ p.member[r].job = j
      BY <1>1 DEF Conserved
    <3>3. QED BY <1>14, <3>2
  <2>4. QED BY Zenon, <1>1, <1>13, <1>14, <2>1, <2>2, <2>3 DEF Conserved
<1>16. Limited(q)
  <2> DEFINE T == {r \in Roles : Occupied(q.member[r])}
  <2>1. T = O \cup released
    BY <1>6, <1>10, <1>13 DEF Occupied
  <2>2. O \cap released = {}
    BY <1>7 DEF Occupied
  <2> HIDE DEF O, T
  <2>3. Cardinality(T) = Cardinality(O) + Cardinality(released) - Cardinality({})
    BY <1>3, <1>6, <2>1, <2>2, CountUnion
  <2>4. Cardinality({}) = 0
    BY CountEmpty
  <2>5. Cardinality(T) <= StartupLimit
    BY <1>3, <1>4, <1>5, <2>3, <2>4 DEF occupied
  <2>6. QED BY <1>1, <1>13, <1>14, <2>5 DEF Limited, T
<1>17. Ordered(p0, q)
  BY <1>1, <1>13, <1>14 DEF Ordered
<1>18. Served(q)
  <2>1. \A r \in Roles : p.member[r].at # "Idle" => q.member[r].at # "Idle"
    BY <1>10, <1>13
  <2>2. \A r \in Roles : p.member[r].at # "Retired" => q.member[r].at # "Retired"
    BY <1>10, <1>13
  <2>3. QED BY <1>0, <1>13, <2>1, <2>2 DEF Served
<1>19. QED BY <1>2, <1>13, <1>15, <1>16, <1>17, <1>18 DEF Good, Sound

-----------------------------------------------------------------------------
(* Jobs that end, return to the queue, or are admitted.                      *)

\* A busy worker's job ends; its role is left to be replaced.
LEMMA JobEnded ==
    ASSUME Counting, NEW p0, NEW p, NEW s, Sound(p0, p, s, 0), NEW r \in Roles, Busy(p, r),
           NEW t \in Terminal
    PROVE  LET q == Deliver(p, p.member[r].job, t)
           IN  /\ q \in PoolStates /\ Sound(p0, q, s, r) /\ q.member = p.member
               /\ q.mode = p.mode /\ q.conf = p.conf
<1> DEFINE j == p.member[r].job
           q == Deliver(p, j, t)
           J == {j}
<1>1. p \in PoolStates /\ Conserved(p, s, 0) /\ 0 \notin Roles
  BY FiniteRoles DEF Sound
<1>2. j \in OpenJobs(p) /\ j \notin p.backlog /\ j \in Jobs /\ p.told[j] = Open
  BY Zenon, <1>1 DEF Conserved, OpenJobs
<1>3. /\ q \in PoolStates /\ q.told = [p.told EXCEPT ![j] = <<"Accepted", t>>]
      /\ <<"Accepted", t>> \in Ends
      /\ q.member = p.member /\ q.backlog = p.backlog /\ q.charges = p.charges
      /\ q.mode = p.mode /\ q.conf = p.conf
  <2> HIDE DEF j
  <2>1. QED BY Zenon, <1>1, <1>2, DeliverType
<1> HIDE DEF q
<1>4. \A k \in Jobs : IF k \in J THEN q.told[k] \in Ends ELSE q.told[k] = p.told[k]
  BY <1>1, <1>3 DEF PoolStates
<1>5. \A u \in Roles \ {r} :
         IF u # 0 /\ Busy(p, u) /\ p.member[u].job \notin J
         THEN Alike(p.member[u], q.member[u]) ELSE Freed(p.member[u], q.member[u])
  BY <1>1, <1>3 DEF Conserved, Busy, Alike, Freed
<1>6. J \subseteq OpenJobs(p) /\ q.backlog = p.backlog \ J /\ p.member[r].job \in J
  BY <1>2, <1>3
<1> HIDE DEF J, j
<1>7. Closes(p, q, J, 0, r)
  BY Zenon, <1>3, <1>4, <1>5, <1>6 DEF Closes
<1>8. Sound(p0, q, s, r)
  BY <1>7, Close
<1>9. QED BY Zenon, <1>3, <1>8 DEF q, j

\* A busy worker's job returns to the queue before any other job is given out.
LEMMA Requeued ==
    ASSUME Counting, NEW p0, NEW p, NEW s, Sound(p0, p, s, 0), NEW r \in Roles, Busy(p, r),
           \A t \in Roles : Busy(p, t) => p.member[t].job = p0.member[t].job
    PROVE  LET q == Requeue(p, p.member[r].job)
           IN  /\ q \in PoolStates /\ Sound(p0, q, s, r) /\ q.member = p.member
               /\ q.mode = p.mode /\ q.conf = p.conf
<1> DEFINE j == p.member[r].job
           q == Requeue(p, j)
<1>1. p \in PoolStates /\ Conserved(p, s, 0) /\ 0 \notin Roles /\ Limited(p)
  BY Zenon, FiniteRoles DEF Sound
<1>2. j \in OpenJobs(p) /\ j \notin p.backlog /\ j \in Jobs
  BY <1>1 DEF Conserved, OpenJobs
<1> HIDE DEF j
<1>3. /\ q \in PoolStates /\ q.told = p.told /\ q.member = p.member
      /\ q.backlog = p.backlog \cup {j} /\ q.charges = p.charges
      /\ q.mode = p.mode /\ q.conf = p.conf
  BY Zenon, <1>1, <1>2 DEF PoolStates, Requeue
<1> HIDE DEF q
<1>4. OpenJobs(q) = OpenJobs(p) /\ \A t \in Roles : Busy(q, t) <=> Busy(p, t)
  BY <1>3 DEF OpenJobs, Busy
<1>5. Conserved(q, s, r)
  <2>1. \A t \in Roles \ {r} : Busy(q, t) =>
           q.member[t].job \in OpenJobs(q) /\ q.member[t].job \notin q.backlog
    <3>1. \A t \in Roles \ {r} : Busy(p, t) => p.member[t].job # j
      BY <1>1 DEF Conserved, j
    <3>2. QED BY Zenon, <1>1, <1>3, <1>4, <3>1 DEF Conserved
  <2>2. \A t, u \in Roles \ {r} :
           Busy(q, t) /\ Busy(q, u) /\ q.member[t].job = q.member[u].job => t = u
    BY <1>1, <1>3, <1>4 DEF Conserved
  <2>3. \A k \in OpenJobs(q) \ q.backlog :
           \E t \in Roles \ {r} : Busy(q, t) /\ q.member[t].job = k
    <3>1. SUFFICES ASSUME NEW k \in OpenJobs(p) \ p.backlog, k # j
                   PROVE  \E t \in Roles \ {r} : Busy(q, t) /\ q.member[t].job = k
      BY <1>3, <1>4
    <3>2. PICK t \in Roles \ {0} : Busy(p, t) /\ p.member[t].job = k
      BY <1>1 DEF Conserved
    <3>3. QED BY <1>3, <1>4, <3>1, <3>2 DEF j
  <2>4. QED BY Zenon, <1>1, <1>2, <1>3, <1>4, <2>1, <2>2, <2>3 DEF Conserved
<1>6. Limited(q)
  BY <1>1, <1>3, <1>4 DEF Limited
<1>7. Ordered(p0, q)
  BY <1>3, <1>4 DEF Ordered
<1>8. QED BY Zenon, <1>3, <1>5, <1>6, <1>7 DEF Sound, q, j

\* The next job is refused.
LEMMA Refused ==
    ASSUME NEW p0, NEW p, NEW s \in Nat, Sound(p0, p, s, 0), s < NJobs
    PROVE  LET q == Deliver(p, s + 1, "Rejected")
           IN  /\ q \in PoolStates /\ Sound(p0, q, s + 1, 0) /\ q.member = p.member
               /\ q.mode = p.mode /\ q.conf = p.conf /\ q.backlog = p.backlog
<1> DEFINE j == s + 1
           q == Deliver(p, j, "Rejected")
<1>1. p \in PoolStates /\ Conserved(p, s, 0) /\ Limited(p) /\ Ordered(p0, p)
  BY DEF Sound
<1>2. j \in Jobs /\ p.told[j] = <<>> /\ Jobs \subseteq Nat
  BY <1>1, PoolAssumption DEF Conserved, Jobs
<1>3. Append(<<>>, "Rejected") = <<"Rejected">> /\ <<"Rejected">> \in Ends
  BY Tuples DEF Ends
<1>4. \A k \in Jobs : s + 1 < k <=> s < k /\ k # j
  BY <1>2
<1> HIDE DEF j
<1>5. /\ q \in PoolStates /\ q.told = [p.told EXCEPT ![j] = <<"Rejected">>]
      /\ q.member = p.member /\ q.backlog = p.backlog /\ q.charges = p.charges
      /\ q.mode = p.mode /\ q.conf = p.conf
  BY Zenon, <1>1, <1>2, <1>3 DEF Deliver, PoolStates
<1> HIDE DEF q
<1>6. \A k \in Jobs : q.told[k] = IF k = j THEN <<"Rejected">> ELSE p.told[k]
  BY <1>1, <1>5 DEF PoolStates
<1>7. OpenJobs(q) = OpenJobs(p) /\ \A t \in Roles : Busy(q, t) <=> Busy(p, t)
  BY <1>2, <1>3, <1>5, <1>6, EndsAreEnds DEF OpenJobs, Busy
<1>8. \A k \in Jobs : q.told[k] = <<>> <=> s + 1 < k
  BY <1>1, <1>3, <1>4, <1>6, EndsAreEnds DEF Conserved
<1>9. Conserved(q, s + 1, 0)
  BY <1>1, <1>5, <1>7, <1>8 DEF Conserved
<1>10. Limited(q) /\ Ordered(p0, q)
  BY <1>1, <1>5, <1>7 DEF Limited, Ordered
<1>11. QED BY Zenon, <1>5, <1>9, <1>10 DEF Sound, q, j

\* Every open job that is not queued is with a worker of its own.
LEMMA OpenBound ==
    ASSUME Counting, NEW p0, NEW p, NEW s, Sound(p0, p, s, 0)
    PROVE  LET busy == {r \in Roles : Busy(p, r)}
           IN  /\ Cardinality(p.backlog) \in Nat /\ Cardinality(busy) \in Nat
               /\ Cardinality(OpenJobs(p)) \in Nat
               /\ Cardinality(OpenJobs(p)) <= Cardinality(p.backlog) + Cardinality(busy)
<1> DEFINE busy == {r \in Roles : Busy(p, r)}
           S == OpenJobs(p) \ p.backlog
           f == [j \in S |-> CHOOSE r \in busy : p.member[r].job = j]
<1>1. Conserved(p, s, 0) /\ p.backlog \subseteq OpenJobs(p)
  BY DEF Sound, Conserved
<1>2. /\ IsFiniteSet(p.backlog) /\ Cardinality(p.backlog) \in Nat
      /\ IsFiniteSet(S) /\ Cardinality(S) \in Nat /\ Cardinality(OpenJobs(p)) \in Nat
      /\ IsFiniteSet(busy) /\ Cardinality(busy) \in Nat
  BY <1>1, FiniteOpen, FiniteRoles
<1>3. \A j \in S : \E r \in busy : p.member[r].job = j
  BY <1>1 DEF Conserved
<1>4. \A j \in S : f[j] \in busy /\ p.member[f[j]].job = j
  BY <1>3
<1>5. f \in Injection(S, busy)
  BY Zenon, <1>4 DEF Injection, IsInjective
<1> HIDE DEF f
<1>6. Cardinality(S) <= Cardinality(busy)
  BY <1>2, <1>5, CountInjection
<1>7. Cardinality(p.backlog \cup S)
        = Cardinality(p.backlog) + Cardinality(S) - Cardinality(p.backlog \cap S)
  BY <1>2, CountUnion
<1>8. p.backlog \cup S = OpenJobs(p) /\ p.backlog \cap S = {} /\ Cardinality({}) = 0
  BY <1>1, CountEmpty
<1>9. QED BY <1>2, <1>6, <1>7, <1>8

\* The next job is accepted: it is queued, or given to a worker while nothing is
\* queued.
Admits1(p0, p, q, j) ==
    /\ q \in PoolStates /\ q.told = [p.told EXCEPT ![j] = Open] /\ q.charges = p.charges
    /\ \/ /\ q.member = p.member /\ p.member = p0.member
          /\ q.backlog = p.backlog \cup {j}
       \/ /\ p.backlog = {} /\ q.backlog = {}
          /\ \E r \in Roles :
                /\ ~Busy(p, r) /\ Busy(q, r) /\ q.member[r].job = j
                /\ \A t \in Roles : t # r => q.member[t] = p.member[t]

\* Such a step keeps the pool sound if the queue and the roster had room.
LEMMA Admitted ==
    ASSUME Counting, NEW p0, NEW p, NEW q, NEW s \in Nat, Sound(p0, p, s, 0), s < NJobs,
           Cardinality(OpenJobs(p)) < BacklogCapacity + NRoles, Admits1(p0, p, q, s + 1)
    PROVE  Sound(p0, q, s + 1, 0)
<1> DEFINE j == s + 1
<1>1. p \in PoolStates /\ Conserved(p, s, 0) /\ Limited(p) /\ Ordered(p0, p)
  BY DEF Sound
<1>2. j \in Jobs /\ p.told[j] = <<>> /\ Jobs \subseteq Nat
  BY <1>1, PoolAssumption DEF Conserved, Jobs
<1>3. \A k \in Jobs : s + 1 < k <=> s < k /\ k # j
  BY <1>2
<1> HIDE DEF j
<1>4. Admits1(p0, p, q, j)
  BY DEF j
<1>5. \A k \in Jobs : q.told[k] = IF k = j THEN Open ELSE p.told[k]
  BY Zenon, <1>1, <1>4 DEF PoolStates, Admits1
<1>6. OpenJobs(q) = OpenJobs(p) \cup {j} /\ j \notin OpenJobs(p) /\ j \notin p.backlog
  <2>1. Open # <<>>
    BY EndsAreEnds
  <2>2. OpenJobs(q) = OpenJobs(p) \cup {j} /\ j \notin OpenJobs(p)
    BY <1>2, <1>5, <2>1 DEF OpenJobs
  <2>3. p.backlog \subseteq OpenJobs(p)
    BY <1>1 DEF Conserved
  <2>4. QED BY <2>2, <2>3
<1>7. \A k \in Jobs : q.told[k] = <<>> <=> s + 1 < k
  BY <1>1, <1>3, <1>5, EndsAreEnds DEF Conserved
<1>8. Cardinality(OpenJobs(q)) <= BacklogCapacity + NRoles
  <2>1. IsFiniteSet(OpenJobs(p)) /\ Cardinality(OpenJobs(p)) \in Nat
    BY FiniteOpen
  <2>2. Cardinality(OpenJobs(q)) = Cardinality(OpenJobs(p)) + 1
    BY <1>6, <2>1, CountAdded
  <2>3. QED BY <2>1, <2>2, PoolAssumption
<1>9. CASE /\ q.member = p.member /\ p.member = p0.member
           /\ q.backlog = p.backlog \cup {j}
  <2>1. \A t \in Roles : Busy(q, t) <=> Busy(p, t)
    BY <1>9 DEF Busy
  <2>2. Conserved(q, s + 1, 0)
    <3>1. \A t \in Roles \ {0} : Busy(q, t) =>
             q.member[t].job \in OpenJobs(q) /\ q.member[t].job \notin q.backlog
      <4>1. \A t \in Roles \ {0} : Busy(p, t) =>
               p.member[t].job \in OpenJobs(p) /\ p.member[t].job \notin p.backlog
        BY <1>1 DEF Conserved
      <4>2. QED BY <1>6, <1>9, <2>1, <4>1
    <3>2. \A k \in OpenJobs(q) \ q.backlog :
             \E t \in Roles \ {0} : Busy(q, t) /\ q.member[t].job = k
      BY Zenon, <1>1, <1>6, <1>9, <2>1 DEF Conserved
    <3>3. QED BY Zenon, <1>1, <1>6, <1>7, <1>9, <2>1, <3>1, <3>2 DEF Conserved
  <2>3. Limited(q) /\ Ordered(p0, q)
    BY Zenon, <1>1, <1>4, <1>8, <1>9 DEF Limited, Ordered, Admits1
  <2>4. QED BY Zenon, <1>4, <2>2, <2>3 DEF Sound, Admits1
<1>10. ASSUME p.backlog = {}, q.backlog = {}, NEW r \in Roles,
              ~Busy(p, r), Busy(q, r), q.member[r].job = j,
              \A t \in Roles : t # r => q.member[t] = p.member[t]
       PROVE  Sound(p0, q, s + 1, 0)
  <2>1. \A t \in Roles : t # r => (Busy(q, t) <=> Busy(p, t))
    BY Zenon, <1>10 DEF Busy
  <2>2. Conserved(q, s + 1, 0)
    <3>1. \A t \in Roles \ {0} : Busy(q, t) =>
             q.member[t].job \in OpenJobs(q) /\ q.member[t].job \notin q.backlog
      BY Zenon, <1>1, <1>6, <1>10, <2>1 DEF Conserved
    <3>2. \A t, u \in Roles \ {0} :
             Busy(q, t) /\ Busy(q, u) /\ q.member[t].job = q.member[u].job => t = u
      BY Zenon, <1>1, <1>6, <1>10, <2>1 DEF Conserved
    <3>3. \A k \in OpenJobs(q) \ q.backlog :
             \E t \in Roles \ {0} : Busy(q, t) /\ q.member[t].job = k
      <4>1. SUFFICES ASSUME NEW k \in OpenJobs(p)
                     PROVE  \E t \in Roles \ {0} : Busy(q, t) /\ q.member[t].job = k
        BY <1>6, <1>10, FiniteRoles
      <4>2. PICK t \in Roles \ {0} : Busy(p, t) /\ p.member[t].job = k
        BY Zenon, <1>1, <1>10 DEF Conserved
      <4>3. QED BY Zenon, <1>10, <2>1, <4>2
    <3>4. QED BY Zenon, <1>7, <1>10, <3>1, <3>2, <3>3 DEF Conserved
  <2>3. Limited(q)
    <3> DEFINE S == {t \in Roles : Occupied(p.member[t])}
               T == {t \in Roles : Occupied(q.member[t])}
    <3>1. T \subseteq S
      BY Zenon, <1>10 DEF Busy, Occupied
    <3>2. /\ Cardinality(T) <= Cardinality(S) /\ Cardinality(T) \in Nat
          /\ Cardinality(S) \in Nat
      BY <3>1, FiniteRoles, CountSubset
    <3>3. Cardinality(S) <= StartupLimit /\ StartupLimit \in Nat
      BY <1>1, PoolAssumption DEF Limited
    <3>4. Replacements(q.charges) <= RestartLimit.maximum
      BY <1>1, <1>4 DEF Limited, Admits1
    <3> HIDE DEF S, T
    <3>5. Cardinality(T) <= StartupLimit
      BY <3>2, <3>3
    <3>6. QED BY <1>8, <3>4, <3>5 DEF Limited, T
  <2>4. Ordered(p0, q)
    BY <1>10 DEF Ordered
  <2>5. QED BY Zenon, <1>4, <2>2, <2>3, <2>4 DEF Sound, Admits1
<1>11. QED BY <1>4, <1>9, <1>10 DEF Admits1

-----------------------------------------------------------------------------
(* The restart budget.                                                       *)

\* A replacement is charged.
LEMMA Paid ==
    ASSUME Counting, NEW p0, NEW p, NEW s, NEW x, Sound(p0, p, s, x), NEW at \in Nat,
           Admits(p.charges, RestartLimit, at, 1)
    PROVE  LET q == [p EXCEPT !.charges = Charged(@, RestartLimit, at, 1)]
           IN  /\ Sound(p0, q, s, x) /\ q.member = p.member /\ q.backlog = p.backlog
               /\ q.mode = p.mode /\ q.conf = p.conf
<1> DEFINE c == Charged(p.charges, RestartLimit, at, 1)
           q == [p EXCEPT !.charges = c]
<1>1. p \in PoolStates /\ Conserved(p, s, x) /\ Limited(p) /\ Ordered(p0, p)
  BY DEF Sound
<1>2. c \in Seq(Charges) /\ Replacements(c) <= RestartLimit.maximum
  <2>1. p.charges \in Seq(Charges)
    BY <1>1 DEF PoolStates
  <2>2. QED BY <2>1, ChargedWithin
<1> HIDE DEF c
<1>3. /\ q \in PoolStates /\ q.charges = c /\ q.member = p.member /\ q.backlog = p.backlog
      /\ q.told = p.told /\ q.mode = p.mode /\ q.conf = p.conf
  BY Zenon, <1>1, <1>2 DEF PoolStates
<1>4. [p EXCEPT !.charges = Charged(@, RestartLimit, at, 1)] = q
  BY DEF c
<1> HIDE DEF q
<1>5. OpenJobs(q) = OpenJobs(p) /\ \A r \in Roles : Busy(q, r) <=> Busy(p, r)
  BY <1>3 DEF OpenJobs, Busy
<1>6. Conserved(q, s, x)
  BY Zenon, <1>1, <1>3, <1>5 DEF Conserved
<1>7. Limited(q)
  BY Zenon, <1>1, <1>2, <1>3, <1>5 DEF Limited
<1>8. Ordered(p0, q)
  <2>1. ASSUME NEW r \in Roles, Busy(q, r), q.member[r].job # p0.member[r].job,
               NEW j \in q.backlog
        PROVE  q.member[r].job < j
    <3>1. Busy(p, r) /\ p.member[r].job # p0.member[r].job /\ j \in p.backlog
      BY <1>3, <1>5, <2>1
    <3>2. p.member[r].job < j
      BY Zenon, <1>1, <3>1 DEF Ordered
    <3>3. QED BY <1>3, <3>2
  <2>2. QED BY Zenon, <2>1 DEF Ordered
<1>9. QED BY <1>3, <1>4, <1>6, <1>7, <1>8 DEF Sound

-----------------------------------------------------------------------------
(* What the handlers keep.                                                   *)

\* A queue that was served still is, unless a role becomes idle or retires.
LEMMA StillServed ==
    ASSUME NEW p, NEW q, Served(p), q.mode = p.mode, q.backlog = p.backlog,
           \A t \in Roles : \/ q.member[t].at = p.member[t].at
                            \/ q.member[t].at \notin {"Idle", "Retired"}
    PROVE  Served(q)
BY DEF Served

\* A role's record changes while it stays busy with its job, or stays free.
LEMMA Changed ==
    ASSUME Counting,
           NEW p0, NEW p, NEW s, Good(p0, p, s), NEW r \in Roles, NEW m \in Members,
           Alike(p.member[r], m), m.at = p.member[r].at \/ m.at \notin {"Idle", "Retired"}
    PROVE  /\ Good(p0, With(p, r, m), s) /\ With(p, r, m).member[r] = m
           /\ With(p, r, m).mode = p.mode
<1> DEFINE q == With(p, r, m)
<1>1. Sound(p0, p, s, 0) /\ Served(p) /\ p \in PoolStates /\ 0 \notin Roles
  BY FiniteRoles DEF Good, Sound
<1>2. /\ q \in PoolStates /\ q.member = [p.member EXCEPT ![r] = m]
      /\ q.told = p.told /\ q.backlog = p.backlog /\ q.charges = p.charges /\ q.mode = p.mode
  BY Zenon, <1>1, WithType
<1> HIDE DEF q
<1>3. /\ q.member[r] = m /\ \A t \in Roles : t # r => q.member[t] = p.member[t]
  BY <1>1, <1>2 DEF PoolStates
<1>4. Updates(p, q, 0)
  BY Zenon, <1>1, <1>2, <1>3 DEF Updates, Alike
<1>5. Sound(p0, q, s, 0)
  BY <1>1, <1>4, Update
<1>6. Served(q)
  BY Zenon, <1>1, <1>2, <1>3, StillServed
<1>7. QED BY <1>2, <1>3, <1>5, <1>6 DEF Good, q

\* The same, for what is altered besides.
LEMMA GoodAltered ==
    ASSUME NEW p0, NEW p, NEW q, NEW s, Good(p0, p, s), Alters(p, q)
    PROVE  Good(p0, q, s)
<1>1. Sound(p0, q, s, 0)
  BY Altered DEF Good
<1>2. Served(q)
  BY StillServed DEF Good, Alters
<1>3. QED BY <1>1, <1>2 DEF Good

\* A free role takes a record that needs no work, and a request is sent for it.
LEMMA GoodRequested ==
    ASSUME NEW p0, NEW p, NEW u, NEW s, NEW r \in Roles, NEW m \in Members, Served(p),
           Sound(p0, u, s, 0), Moves(p, u, r, m), m.at \notin {"Idle", "Retired"}
    PROVE  Good(p0, u, s)
<1>1. Served(u)
  BY StillServed DEF Moves
<1>2. QED BY <1>1 DEF Good

\* A role's worker is asked to stop.
LEMMA WorkerShutdownRequested ==
    ASSUME Counting, NEW p0, NEW p, NEW s, NEW r \in Roles, Sound(p0, p, s, r)
    PROVE  LET u == RequestWorkerShutdown(p, r)
               m == At(p.member[r], "Stopping", "AwaitingBoth")
           IN  /\ Sound(p0, u, s, 0) /\ Moves(p, u, r, m) /\ u.member[r].at = "Stopping"
               /\ Served(p) => Good(p0, u, s)
<1> DEFINE m == At(p.member[r], "Stopping", "AwaitingBoth")
           w == With(p, r, m)
           q == [w EXCEPT !.shutdowns = @ - 1]
           u == Send(q, "shutdown", r, NoJob)
<1>1. RequestWorkerShutdown(p, r) = u
  BY DEF RequestWorkerShutdown
<1>2. p \in PoolStates /\ p.member[r] \in Members /\ "shutdown" \in Ops
  BY Zenon DEF Sound, PoolStates, Ops
<1>3. m \in Members /\ m.at = "Stopping"
  BY <1>2, Records
<1>4. m.at # "Busy" /\ ~Occupied(m) /\ m.at \notin {"Idle", "Retired"}
  BY <1>3 DEF Occupied
<1> HIDE DEF m
<1>5. w \in PoolStates
  BY Zenon, <1>2, <1>3, WithType
<1>6. Alters(w, q)
  <2> HIDE DEF w
  <2>1. QED BY Zenon, <1>5, Alterations
<1> HIDE DEF q
<1>7. Sound(p0, u, s, 0) /\ Moves(p, u, r, m)
  BY Zenon, <1>2, <1>3, <1>4, <1>6, Requested
<1> HIDE DEF u
<1>8. Served(p) => Good(p0, u, s)
  BY <1>3, <1>4, <1>7, GoodRequested
<1>9. QED BY Zenon, <1>1, <1>3, <1>7, <1>8 DEF m, Moves

\* A role's replacement is created.
LEMMA ReplacementBegun ==
    ASSUME Counting, NEW p0, NEW p, NEW s, NEW r \in Roles, Sound(p0, p, s, r), Served(p)
    PROVE  Good(p0, BeginReplacement(p, r), s)
<1> DEFINE m == Start(p.member[r].n + 1)
           w == With(p, r, m)
           q == [w EXCEPT !.creations = @ - 1]
           u == Send(q, "create", r, NoJob)
<1>1. BeginReplacement(p, r) = u
  BY DEF BeginReplacement
<1>2. p \in PoolStates /\ p.member[r] \in Members /\ "create" \in Ops
  BY DEF Sound, PoolStates, Ops
<1>3. m \in Members /\ m.at = "Creating"
  <2>1. p.member[r].n + 1 \in Nat
    BY <1>2 DEF Members
  <2>2. "Creating" \in States /\ NoSub \in Subs
    BY Names
  <2>3. QED BY <2>1, <2>2, Names DEF Start, Members
<1>4. m.at # "Busy" /\ ~Occupied(m) /\ m.at \notin {"Idle", "Retired"}
  BY <1>3 DEF Occupied
<1> HIDE DEF m
<1>5. w \in PoolStates
  BY Zenon, <1>2, <1>3, WithType
<1>6. Alters(w, q)
  <2> HIDE DEF w
  <2>1. QED BY Zenon, <1>5, Alterations
<1> HIDE DEF q
<1>7. Sound(p0, u, s, 0) /\ Moves(p, u, r, m)
  BY Zenon, <1>2, <1>3, <1>4, <1>6, Requested
<1> HIDE DEF u
<1>8. QED BY <1>1, <1>3, <1>4, <1>7, GoodRequested

\* The next waiting role gets the source.
LEMMA GoodPrepared ==
    ASSUME Counting, NEW p0, NEW p, NEW s, Good(p0, p, s)
    PROVE  Good(p0, PrepareNextWaiting(p), s)
<1> DEFINE u == PrepareNextWaiting(p)
<1>1. /\ Sound(p0, u, s, 0) /\ u.mode = p.mode /\ u.backlog = p.backlog
      /\ \A t \in Roles : u.member[t] = p.member[t] \/ u.member[t].at = "Preparing"
  BY NextPrepared DEF Good
<1> HIDE DEF u
<1>2. Served(u)
  BY <1>1, StillServed DEF Good
<1>3. QED BY Zenon, <1>1, <1>2 DEF Good, u
==============================================================================
