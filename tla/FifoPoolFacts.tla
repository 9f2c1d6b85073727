---------------------------- MODULE FifoPoolFacts ----------------------------
(***************************************************************************)
(* The values of a FIFO pool's state, and what the proofs about its jobs   *)
(* and those about its workers share: facts about finite sets, worker      *)
(* records, the search for an idle worker, the loop that fills workers     *)
(* from the queue, and the restart budget.                                 *)
(***************************************************************************)
EXTENDS FifoPool, TLAPS

Workers == Roles \X Nat

States    == MemberStates \cup RetirementStatuses
Stops     == {NoStop, "Normal", "Abnormal"}
Subs      == {NoSub, "NotRequested", "Issued", "Started"} \cup Deliveries \cup Joins
Custodies == {NoSub, "Initializing", "StartupRequested", "Starting", "StartupPermit",
              "StartupPlan"}

Members ==
    [at : States, n : Nat, stop : Stops, since : Nat, job : 0 .. NJobs, sub : Subs,
     custody : Custodies]

Ops == {"create", "initialize", "start", "ready", "assign", "shutdown", "exit", "notice",
        "prepare", "prepared", "schedule", "elapse"}

Requests == [op : Ops, of : SUBSET Workers, job : 0 .. NJobs]

Charges == [at : Nat, n : {1}]

\* What the customer of a job was told: nothing, that it was accepted, or its end.
Open == <<"Accepted">>

Ends == {<<"Rejected">>} \cup {<<"Accepted", t>> : t \in Terminal}

PoolStates ==
    [mode : {"Operating", "Draining", "Stopped", "ForcedRetirement"},
     member : [Roles -> Members], backlog : SUBSET Jobs, retried : SUBSET Jobs,
     cursor : 0 .. NRoles, source : {"Available", "AwaitingReturn"}, charges : Seq(Charges),
     deadline : Deadlines, conf : Configs, jobs : Int, assignments : Int, shutdowns : Int,
     creations : Int, timers : Int, sent : SUBSET Requests,
     told : [Jobs -> {<<>>, Open} \cup Ends]]

-----------------------------------------------------------------------------
(* Counting.                                                                 *)

\* The facts of arithmetic and of finite sets that the steps below rest on.
\* They are a hypothesis here; FifoPoolProofs and FifoPoolGuard prove it from the
\* library.
Counting ==
    /\ \A T : T \subseteq Nat /\ T # {} => \E x \in T : \A y \in T : x <= y
    /\ \A a, b \in Int :
          IsFiniteSet(a .. b) /\ Cardinality(a .. b) = IF a > b THEN 0 ELSE b - a + 1
    /\ \A S : IsFiniteSet(S) => Cardinality(S) \in Nat
    /\ \A S : IsFiniteSet(S) =>
          \A T \in SUBSET S : IsFiniteSet(T) /\ Cardinality(T) <= Cardinality(S)
    /\ IsFiniteSet({}) /\ Cardinality({}) = 0
    /\ \A x : IsFiniteSet({x}) /\ Cardinality({x}) = 1
    /\ \A S, x : IsFiniteSet(S) =>
          /\ IsFiniteSet(S \cup {x})
          /\ Cardinality(S \cup {x}) = IF x \in S THEN Cardinality(S) ELSE Cardinality(S) + 1
    /\ \A S, x : IsFiniteSet(S) =>
          /\ IsFiniteSet(S \ {x})
          /\ Cardinality(S \ {x}) = IF x \in S THEN Cardinality(S) - 1 ELSE Cardinality(S)
    /\ \A S, T : IsFiniteSet(S) /\ IsFiniteSet(T) =>
          Cardinality(S \cup T) = Cardinality(S) + Cardinality(T) - Cardinality(S \cap T)
    /\ \A S, T : \A f \in Injection(S, T) : IsFiniteSet(T) =>
          IsFiniteSet(S) /\ Cardinality(S) <= Cardinality(T)

\* An interval is finite.
LEMMA CountInterval ==
    ASSUME Counting, NEW a \in Int, NEW b \in Int
    PROVE  IsFiniteSet(a .. b) /\ Cardinality(a .. b) = IF a > b THEN 0 ELSE b - a + 1
BY Zenon DEF Counting

\* A finite set is counted by a natural number.
LEMMA CountType ==
    ASSUME Counting, NEW S, IsFiniteSet(S)
    PROVE  Cardinality(S) \in Nat
BY DEF Counting

\* A part of a finite set is no larger.
LEMMA CountSubset ==
    ASSUME Counting, NEW S, IsFiniteSet(S), NEW T \in SUBSET S
    PROVE  IsFiniteSet(T) /\ Cardinality(T) <= Cardinality(S)
BY Zenon DEF Counting

\* Nothing counts for nothing.
LEMMA CountEmpty ==
    ASSUME Counting
    PROVE  IsFiniteSet({}) /\ Cardinality({}) = 0
BY DEF Counting

\* One element counts for one.
LEMMA CountSingleton ==
    ASSUME Counting
    PROVE  \A x : IsFiniteSet({x}) /\ Cardinality({x}) = 1
BY Zenon DEF Counting

\* A set that fits into a finite one is no larger.
LEMMA CountInjection ==
    ASSUME Counting, NEW S, NEW T, NEW f \in Injection(S, T), IsFiniteSet(T)
    PROVE  IsFiniteSet(S) /\ Cardinality(S) <= Cardinality(T)
BY DEF Counting

-----------------------------------------------------------------------------
(* The roster and its workers.                                               *)

\* The roster is finite, and so is every part of it.
LEMMA FiniteRoles ==
    ASSUME Counting
    PROVE  /\ 0 \notin Roles /\ Roles \subseteq Nat /\ Cardinality(Roles) = NRoles
           /\ \A S \in SUBSET Roles :
                 IsFiniteSet(S) /\ Cardinality(S) \in Nat /\ Cardinality(S) <= NRoles
<1>1. NRoles \in Nat
  BY PoolAssumption
<1>2. IsFiniteSet(1 .. NRoles) /\ Cardinality(1 .. NRoles) = NRoles
  BY <1>1, CountInterval
<1>3. \A S \in SUBSET (1 .. NRoles) : IsFiniteSet(S) /\ Cardinality(S) <= NRoles
  BY Zenon, <1>2, CountSubset
<1>4. \A S \in SUBSET (1 .. NRoles) : Cardinality(S) \in Nat
  BY <1>3, CountType
<1>5. QED BY <1>1, <1>2, <1>3, <1>4 DEF Roles

\* The names of the model.
LEMMA Names ==
    /\ {"Creating", "Retired", "Initializing", "WaitingForStartup", "StartupRequested",
        "Starting", "Idle", "Busy", "Stopping", "WaitingForSource", "Preparing",
        "Scheduling", "WaitingForTimer", "AwaitingCreation", "Established",
        "AwaitingPreparation", "AwaitingRestartSchedule", "Drained", "Departed"} = States
    /\ {"None", "NotRequested", "Issued", "Started", "AwaitingReceipt", "Accepted",
        "CompletionHasPriority", "WorkerExitHasPriority", "WorkerExitThenCompletion",
        "AwaitingBoth", "AwaitingStop", "AwaitingSettlement"} = Subs
    /\ NoSub = "None" /\ NoStop = "None" /\ NoStop \in Stops /\ NoSub \in Custodies
    /\ NoJob = 0 /\ NoJob \in 0 .. NJobs
BY PoolAssumption
   DEF States, MemberStates, RetirementStatuses, WorkerPhases, Recovering, Subs, Deliveries,
       Joins, NoSub, NoStop, NoJob, Stops, Custodies

\* The records a role may have.
LEMMA MemberTypes ==
    ASSUME NEW m \in Members
    PROVE  /\ \A at \in States, sub \in Subs :
                /\ At(m, at, sub) \in Members /\ At(m, at, sub).at = at
                /\ Cleared(m, at, sub) \in Members /\ Cleared(m, at, sub).at = at
           /\ \A kind \in Stops, now \in Nat :
                /\ Stopped(m, kind, now) \in Members
                /\ Stopped(m, kind, now).at = m.at /\ Stopped(m, kind, now).job = m.job
           /\ \A sub \in Subs :
                /\ [m EXCEPT !.sub = sub] \in Members
                /\ [m EXCEPT !.sub = sub].at = m.at /\ [m EXCEPT !.sub = sub].job = m.job
<1>1. ASSUME NEW at \in States, NEW sub \in Subs
      PROVE  /\ At(m, at, sub) \in Members /\ At(m, at, sub).at = at
             /\ Cleared(m, at, sub) \in Members /\ Cleared(m, at, sub).at = at
  <2>1. m.n \in Nat /\ m.stop \in Stops /\ m.since \in Nat
    BY DEF Members
  <2>2. At(m, at, sub) \in Members /\ At(m, at, sub).at = at
    BY <2>1, Names DEF Members, At
  <2>3. Cleared(m, at, sub) \in Members /\ Cleared(m, at, sub).at = at
    BY <2>1, Names DEF Members, Cleared
  <2>4. QED BY <2>2, <2>3
<1>2. ASSUME NEW kind \in Stops, NEW now \in Nat
      PROVE  /\ Stopped(m, kind, now) \in Members
             /\ Stopped(m, kind, now).at = m.at /\ Stopped(m, kind, now).job = m.job
  BY Zenon DEF Members, Stopped
<1>3. ASSUME NEW sub \in Subs
      PROVE  /\ [m EXCEPT !.sub = sub] \in Members
             /\ [m EXCEPT !.sub = sub].at = m.at /\ [m EXCEPT !.sub = sub].job = m.job
  BY DEF Members
<1>4. QED BY <1>1, <1>2, <1>3

\* The records the handlers give a role that is not busy.
LEMMA Records ==
    ASSUME NEW m \in Members
    PROVE  /\ At(m, "Preparing", "Issued") \in Members
           /\ At(m, "Preparing", "Issued").at = "Preparing"
           /\ \A at \in {"WaitingForSource", "WaitingForStartup", "StartupRequested", "Idle",
                         "Scheduling", "WaitingForTimer"} :
                 At(m, at, NoSub) \in Members /\ At(m, at, NoSub).at = at
           /\ At(m, "Stopping", "AwaitingBoth") \in Members
           /\ At(m, "Stopping", "AwaitingBoth").at = "Stopping"
           /\ Retire(m) \in Members /\ Retire(m).at = "Retired"
           /\ Drained(m) \in Members /\ Drained(m).at = "Drained"
           /\ Departed(m) \in Members /\ Departed(m).at = "Departed"
<1>1. /\ {"Preparing", "WaitingForSource", "WaitingForStartup", "StartupRequested", "Idle",
          "Scheduling", "WaitingForTimer", "Stopping", "Retired", "Drained", "Departed"}
            \subseteq States
      /\ {"Issued", "AwaitingBoth", NoSub} \subseteq Subs
  BY Names
<1>2. \A at \in States, sub \in Subs :
         /\ At(m, at, sub) \in Members /\ At(m, at, sub).at = at
         /\ Cleared(m, at, sub) \in Members /\ Cleared(m, at, sub).at = at
  BY MemberTypes
<1>3. /\ At(m, "Preparing", "Issued") \in Members
      /\ At(m, "Preparing", "Issued").at = "Preparing"
      /\ At(m, "Stopping", "AwaitingBoth") \in Members
      /\ At(m, "Stopping", "AwaitingBoth").at = "Stopping"
  BY <1>1, <1>2
<1>4. \A at \in {"WaitingForSource", "WaitingForStartup", "StartupRequested", "Idle",
                 "Scheduling", "WaitingForTimer"} :
         At(m, at, NoSub) \in Members /\ At(m, at, NoSub).at = at
  BY <1>1, <1>2
<1>5. /\ Retire(m) \in Members /\ Retire(m).at = "Retired"
      /\ Drained(m) \in Members /\ Drained(m).at = "Drained"
      /\ Departed(m) \in Members /\ Departed(m).at = "Departed"
  BY <1>1, <1>2 DEF Retire, Drained, Departed
<1>6. QED BY <1>3, <1>4, <1>5

-----------------------------------------------------------------------------
(* Dispatch.                                                                 *)

\* A nonempty set of numbers has a least element.
LEMMA Least ==
    ASSUME Counting, NEW T, T \subseteq Nat, T # {}
    PROVE  Min(T) \in T /\ \A y \in T : Min(T) <= y
<1>1. \E x \in T : \A y \in T : x <= y
  BY Zenon DEF Counting
<1>2. QED BY Zenon, <1>1 DEF Min

\* The circular search visits every role.
LEMMA Circular ==
    ASSUME NEW c \in 0 .. NRoles, NEW r \in Roles
    PROVE  \E o \in 0 .. NRoles - 1 : ((c + o) % NRoles) + 1 = r
<1>0. NRoles \in Nat /\ r \in Nat /\ 1 <= r /\ r <= NRoles
  BY PoolAssumption DEF Roles
<1>1. \A x \in Nat, n \in Nat : x < n => x % n = x /\ (x + n) % n = x
  OBVIOUS
<1>2. CASE c <= r - 1
  <2>1. r - 1 - c \in 0 .. NRoles - 1 /\ c + (r - 1 - c) = r - 1 /\ (r - 1) % NRoles = r - 1
    BY <1>0, <1>1, <1>2
  <2>2. QED BY <1>0, <2>1
<1>3. CASE r - 1 < c
  <2>1. PICK o \in 0 .. NRoles - 1 : c + o = (r - 1) + NRoles
    <3>1. r - 1 - c + NRoles \in 0 .. NRoles - 1
      BY <1>0, <1>3
    <3>2. QED BY <1>0, <3>1
  <2>2. r - 1 \in Nat /\ ((r - 1) + NRoles) % NRoles = r - 1
    BY <1>0, <1>1
  <2>3. ((c + o) % NRoles) + 1 = r
    BY <1>0, <2>1, <2>2
  <2>4. QED BY <2>3
<1>4. QED BY <1>0, <1>2, <1>3

\* The search finds an idle role if there is one.
LEMMA Available ==
    ASSUME Counting, NEW p \in PoolStates
    PROVE  \/ AvailablePosition(p) = 0 /\ \A r \in Roles : p.member[r].at # "Idle"
           \/ /\ AvailablePosition(p) \in Roles
              /\ p.member[AvailablePosition(p)].at = "Idle"
<1> DEFINE Spot(o) == ((p.cursor + o) % NRoles) + 1
           idle == {o \in 0 .. NRoles - 1 : p.member[Spot(o)].at = "Idle"}
<1>0. NRoles \in Nat /\ p.cursor \in 0 .. NRoles
  BY PoolAssumption DEF PoolStates
<1>1. \A o \in 0 .. NRoles - 1 : Spot(o) \in Roles
  BY <1>0 DEF Roles
<1>2. CASE idle = {}
  <2>1. \A r \in Roles : \E o \in 0 .. NRoles - 1 : Spot(o) = r
    BY Zenon, <1>0, Circular
  <2>2. QED BY <1>2, <2>1 DEF AvailablePosition
<1>3. CASE idle # {}
  <2>1. idle \subseteq Nat
    BY <1>0
  <2>2. Min(idle) \in idle
    BY <1>3, <2>1, Least, Zenon
  <2>3. AvailablePosition(p) = Spot(Min(idle))
    BY <1>3 DEF AvailablePosition
  <2>4. QED BY <1>1, <2>2, <2>3, Zenon
<1>4. QED BY <1>2, <1>3

Climbs(T, n) == 0 \in T /\ \A i \in 0 .. n : i < n /\ i \in T => i + 1 \in T

\* Induction up to n.
LEMMA UpTo ==
    ASSUME Counting, NEW n \in Nat, NEW T, Climbs(T, n)
    PROVE  0 .. n \subseteq T
<1>0. 0 \in T /\ \A i \in 0 .. n : i < n /\ i \in T => i + 1 \in T
  BY DEF Climbs
<1>1. SUFFICES ASSUME ~(0 .. n \subseteq T) PROVE FALSE
  OBVIOUS
<1> DEFINE U == (0 .. n) \ T
<1>2. U \subseteq Nat /\ U # {}
  BY <1>1
<1> HIDE DEF U
<1>3. PICK x \in U : \A y \in U : x <= y
  BY Zenon, <1>2, Least
<1>4. x # 0 /\ x - 1 \in 0 .. n /\ x - 1 \notin U
  BY <1>0, <1>3 DEF U
<1>5. QED BY <1>0, <1>3, <1>4 DEF U

\* step[1] to step[n] are applied in turn, to b first.
Iterated(f, S, n, b, step) ==
    f \in [0 .. n -> S] /\ f[0] = b /\ \A i \in 1 .. n : f[i] = step[i][f[i - 1]]

\* Such a function exists.
LEMMA Iterates ==
    ASSUME Counting, NEW S, NEW n \in Nat, NEW b \in S, NEW step \in [1 .. n -> [S -> S]]
    PROVE  \E f : Iterated(f, S, n, b, step)
<1> DEFINE T == {k \in 0 .. n : \E f : Iterated(f, S, k, b, step)}
<1>1. 0 \in T
  <2> DEFINE g == [i \in 0 .. 0 |-> b]
  <2>1. g \in [0 .. 0 -> S] /\ g[0] = b /\ 1 .. 0 = {}
    OBVIOUS
  <2> HIDE DEF g
  <2>2. QED BY <2>1 DEF Iterated
<1>2. ASSUME NEW k \in 0 .. n, k < n, k \in T PROVE k + 1 \in T
  <2>1. PICK f : Iterated(f, S, k, b, step)
    BY <1>2
  <2> DEFINE v == step[k + 1][f[k]]
             g == [i \in 0 .. k + 1 |-> IF i = k + 1 THEN v ELSE f[i]]
  <2>2. /\ k \in Nat /\ k + 1 \in 1 .. n /\ k + 1 \in 0 .. n
        /\ f \in [0 .. k -> S] /\ f[k] \in S /\ f[0] = b
    BY <1>2, <2>1 DEF Iterated
  <2>3. v \in S
    BY <2>2
  <2>4. g \in [0 .. k + 1 -> S]
    BY <2>2, <2>3
  <2>5. g[k + 1] = v /\ \A i \in 0 .. k : g[i] = f[i]
    BY <2>2
  <2> HIDE DEF g
  <2>6. \A i \in 1 .. k : g[i] = step[i][g[i - 1]]
    BY <2>1, <2>2, <2>5 DEF Iterated
  <2>7. g[k + 1] = step[k + 1][g[k + 1 - 1]]
    BY <2>2, <2>5
  <2>8. Iterated(g, S, k + 1, b, step)
    BY <2>2, <2>4, <2>5, <2>6, <2>7 DEF Iterated
  <2>9. QED BY <2>2, <2>8
<1> HIDE DEF T
<1>3. 0 .. n \subseteq T
  <2>1. Climbs(T, n)
    BY Zenon, <1>1, <1>2 DEF Climbs
  <2>2. QED BY <2>1, UpTo
<1>4. QED BY <1>3 DEF T

\* The recursion of FillFifo is NJobs rounds.
LEMMA FillRounds ==
    ASSUME Counting, NEW S, NEW p \in S, \A q \in S : FillOne(q) \in S
    PROVE  \E f \in [0 .. NJobs -> S] :
             /\ f[0] = p /\ \A i \in 1 .. NJobs : f[i] = FillOne(f[i - 1])
             /\ FillFifo(p) = f[NJobs]
<1> DEFINE Rec(f) == f = [i \in 0 .. NJobs |-> IF i = 0 THEN p ELSE FillOne(f[i - 1])]
           g == CHOOSE f : Rec(f)
           step == [i \in 1 .. NJobs |-> [x \in S |-> FillOne(x)]]
           T == {i \in 0 .. NJobs : g[i] \in S}
<1>1. NJobs \in Nat /\ \A i \in 1 .. NJobs : i \in 0 .. NJobs /\ i - 1 \in 0 .. NJobs /\ i # 0
  BY PoolAssumption
<1>2. step \in [1 .. NJobs -> [S -> S]]
  OBVIOUS
<1>3. \A i \in 1 .. NJobs : \A x \in S : step[i][x] = FillOne(x)
  OBVIOUS
<1> HIDE DEF step
<1>4. PICK f : Iterated(f, S, NJobs, p, step)
  BY <1>1, <1>2, Iterates
<1>5. \A i \in 1 .. NJobs : f[i] = FillOne(f[i - 1])
  BY <1>1, <1>3, <1>4 DEF Iterated
<1>6. Rec(f)
  BY <1>1, <1>4, <1>5 DEF Iterated
<1>7. Rec(g)
  BY Zenon, <1>6
<1>8. FillFifo(p) = g[NJobs]
  BY DEF FillFifo
<1> HIDE DEF g
<1>9. g[0] = p /\ \A i \in 1 .. NJobs : g[i] = FillOne(g[i - 1])
  BY <1>1, <1>7
<1>10. 0 \in T
  BY <1>1, <1>9
<1>11. ASSUME NEW i \in 0 .. NJobs, i < NJobs, i \in T PROVE i + 1 \in T
  <2>1. i + 1 \in 1 .. NJobs /\ i + 1 \in 0 .. NJobs /\ i + 1 - 1 = i
    BY <1>1, <1>11
  <2>2. QED BY <1>9, <1>11, <2>1
<1> HIDE DEF T
<1>12. 0 .. NJobs \subseteq T
  <2>1. Climbs(T, NJobs)
    BY Zenon, <1>10, <1>11 DEF Climbs
  <2>2. QED BY <1>1, <2>1, UpTo
<1>13. g \in [0 .. NJobs -> S]
  BY <1>7, <1>12 DEF T
<1>14. QED BY Zenon, <1>8, <1>9, <1>13

-----------------------------------------------------------------------------
(* The shutdown of a worker.                                                 *)

\* A retiring role is neither busy nor starting.
LEMMA ShutdownType ==
    ASSUME NEW m \in Members, NEW requested \in BOOLEAN
    PROVE  /\ Shutdown(m, requested) \in Members
           /\ Shutdown(m, requested).at \in RetirementStatuses
<1>1. RetirementStatuses \subseteq States
  BY DEF States
<1>2. \A at \in RetirementStatuses, sub \in Subs :
         Cleared(m, at, sub) \in Members /\ Cleared(m, at, sub).at = at
  BY <1>1, MemberTypes
<1>3. /\ {"AwaitingCreation", "Established", "AwaitingPreparation",
          "AwaitingRestartSchedule", "Drained", "Departed"} = RetirementStatuses
      /\ {"AwaitingBoth", "NotRequested", NoSub, m.sub} \subseteq Subs
  BY Names DEF Members, RetirementStatuses
<1>4. CASE m.at = "Creating"
  <2>1. Shutdown(m, requested) = [m EXCEPT !.at = "AwaitingCreation"]
    BY <1>4 DEF Shutdown
  <2>2. QED BY <1>1, <1>3, <2>1 DEF Members
<1>5. CASE m.at # "Creating" /\ ShutdownTarget(m)
  <2> DEFINE c == Cleared(m, "Established",
                          IF requested THEN "AwaitingBoth" ELSE "NotRequested")
  <2>1. c \in Members /\ c.at = "Established"
    BY Zenon, <1>2, <1>3
  <2>2. StartupCustody(m) \in Custodies
    BY DEF StartupCustody, Custodies
  <2>3. Shutdown(m, requested) = [c EXCEPT !.custody = StartupCustody(m)]
    BY <1>5 DEF Shutdown, RetireWorker
  <2> HIDE DEF c
  <2>4. QED BY <1>3, <2>1, <2>2, <2>3 DEF Members
<1>6. CASE m.at # "Creating" /\ ~ShutdownTarget(m)
  <2>1. \E at \in RetirementStatuses, sub \in Subs :
           Shutdown(m, requested) = Cleared(m, at, sub)
    BY <1>3, <1>6 DEF Shutdown, ShutdownRecovering, Drained
  <2>2. QED BY <1>2, <2>1
<1>7. QED BY <1>4, <1>5, <1>6

-----------------------------------------------------------------------------
(* The restart budget.                                                       *)

\* Every charge of a pool is for one replacement.
LEMMA Counted ==
    ASSUME Counting, NEW c \in Seq(Charges)
    PROVE  Replacements(c) = Len(c)
<1> DEFINE n == Len(c)
           Rec(f) == f = [i \in 0 .. n |-> IF i = 0 THEN 0 ELSE f[i - 1] + c[i].n]
           g == CHOOSE f : Rec(f)
           h == [i \in 0 .. n |-> i]
           T == {i \in 0 .. n : g[i] = i}
<1>1. n \in Nat /\ \A i \in 1 .. n : c[i].n = 1
  <2>1. \A e \in Charges : e.n = 1
    BY DEF Charges
  <2>2. QED BY <2>1
<1>2. Replacements(c) = g[n]
  BY DEF Replacements
<1> HIDE DEF n
<1>3. Rec(h)
  <2>1. \A i \in 0 .. n : i # 0 => /\ i \in 1 .. n /\ i - 1 \in 0 .. n
                                  /\ h[i - 1] = i - 1 /\ i - 1 + 1 = i
    BY <1>1
  <2>2. \A i \in 0 .. n : i = IF i = 0 THEN 0 ELSE h[i - 1] + c[i].n
    BY <1>1, <2>1
  <2>3. QED BY <2>2
<1>4. Rec(g)
  <2> HIDE DEF h
  <2>1. QED BY Zenon, <1>3
<1> HIDE DEF g
<1>5. \A i \in 0 .. n : g[i] = IF i = 0 THEN 0 ELSE g[i - 1] + c[i].n
  BY Zenon, <1>4
<1>6. 0 \in T
  BY <1>1, <1>5
<1>7. ASSUME NEW i \in 0 .. n, i < n, i \in T PROVE i + 1 \in T
  <2>1. /\ i + 1 \in 0 .. n /\ i + 1 \in 1 .. n /\ i + 1 # 0 /\ i + 1 - 1 = i
    BY <1>1, <1>7
  <2>2. g[i + 1] = g[i] + 1
    BY <1>1, <1>5, <2>1
  <2>3. QED BY <1>7, <2>1, <2>2
<1> HIDE DEF T
<1>8. 0 .. n \subseteq T
  <2>1. Climbs(T, n)
    BY Zenon, <1>6, <1>7 DEF Climbs
  <2>2. QED BY <1>1, <2>1, UpTo
<1>9. n \in 0 .. n
  BY <1>1
<1>10. g[n] = n
  BY <1>8, <1>9 DEF T
<1>11. QED BY <1>2, <1>10 DEF n

\* An admitted replacement is charged within the limit.
LEMMA ChargedWithin ==
    ASSUME Counting, NEW c \in Seq(Charges), NEW at \in Nat, Admits(c, RestartLimit, at, 1)
    PROVE  /\ Charged(c, RestartLimit, at, 1) \in Seq(Charges)
           /\ Replacements(Charged(c, RestartLimit, at, 1)) <= RestartLimit.maximum
<1> DEFINE a == Active(c, RestartLimit.window, at)
           older == {i \in DOMAIN c : c[i].at < at - RestartLimit.window}
           e == [at |-> at, n |-> 1]
<1>1. a \in Seq(Charges)
  <2>1. IsFiniteSet(1 .. Len(c)) /\ DOMAIN c = 1 .. Len(c) /\ Len(c) \in Nat
    BY CountInterval
  <2>2. IsFiniteSet(older)
    BY <2>1, CountSubset
  <2>3. Cardinality(older) \in Nat
    <3> HIDE DEF older
    <3>1. QED BY <2>2, CountType
  <2>4. a = IF at < RestartLimit.window THEN c ELSE SubSeq(c, Cardinality(older) + 1, Len(c))
    BY DEF Active
  <2> HIDE DEF older
  <2>5. SubSeq(c, Cardinality(older) + 1, Len(c)) \in Seq(Charges)
    BY <2>1, <2>3
  <2> HIDE DEF a
  <2>6. QED BY <2>4, <2>5
<1>2. e \in Charges
  BY DEF Charges
<1>3. Replacements(a) + 1 <= RestartLimit.maximum
  BY DEF Admits
<1>4. Charged(c, RestartLimit, at, 1) = Append(a, e)
  BY DEF Charged
<1> HIDE DEF a, e
<1>5. Append(a, e) \in Seq(Charges) /\ Len(Append(a, e)) = Len(a) + 1
  BY <1>1, <1>2
<1>6. Replacements(a) = Len(a) /\ Replacements(Append(a, e)) = Len(Append(a, e))
  BY Zenon, <1>1, <1>5, Counted
<1>7. QED BY Zenon, <1>3, <1>4, <1>5, <1>6
==============================================================================
