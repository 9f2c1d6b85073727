------------------------------ MODULE WorkQueue ------------------------------
(***************************************************************************)
(* The bounded work queue of routing/work_queue.rs: producers submit jobs, *)
(* workers announce and withdraw, in any order.  The jobs are numbered in  *)
(* the order of submission.                                                *)
(***************************************************************************)
EXTENDS Naturals, Sequences, SequencesExt, FiniteSets

CONSTANTS
    Capacity,       \* of the waiting queue; zero is allowed
    Workers,
    MaxJobs         \* bound: jobs submitted

VARIABLES
    available,  \* VecDeque<WorkerRoute>
    waiting,    \* VecDeque<Waiting>
    submitted,  \* history: number of jobs submitted
    assigned,   \* history: jobs delivered to a worker, in order
    rejected,   \* history: jobs returned as Full
    owed        \* history: workers whose latest announcement is unanswered

vars == <<available, waiting, submitted, assigned, rejected, owed>>

Init ==
    /\ available = <<>> /\ waiting = <<>>
    /\ submitted = 0 /\ assigned = <<>> /\ rejected = {} /\ owed = {}

\* submit
Submit ==
    /\ submitted < MaxJobs
    /\ submitted' = submitted + 1
    /\ IF available # <<>>
       THEN /\ assigned' = Append(assigned, submitted')
            /\ available' = Tail(available)
            /\ owed' = owed \ {Head(available)}
            /\ UNCHANGED <<waiting, rejected>>
       ELSE IF Len(waiting) = Capacity
       THEN rejected' = rejected \cup {submitted'} /\ UNCHANGED <<available, waiting, assigned, owed>>
       ELSE waiting' = Append(waiting, submitted') /\ UNCHANGED <<available, assigned, rejected, owed>>

\* Slip: the newest job is taken.
AnnounceNewest(worker) ==
    IF waiting # <<>>
    THEN /\ assigned' = Append(assigned, Last(waiting))
         /\ waiting' = Front(waiting)
         /\ UNCHANGED <<available, submitted, rejected, owed>>
    ELSE /\ available' = IF Contains(available, worker) THEN available
                         ELSE Append(available, worker)
         /\ owed' = owed \cup {worker}
         /\ UNCHANGED <<waiting, submitted, assigned, rejected>>

\* announce
Announce(worker) ==
    IF waiting # <<>>
    THEN /\ assigned' = Append(assigned, Head(waiting))
         /\ waiting' = Tail(waiting)
         /\ UNCHANGED <<available, submitted, rejected, owed>>
    ELSE /\ available' = IF Contains(available, worker) THEN available
                         ELSE Append(available, worker)
         /\ owed' = owed \cup {worker}
         /\ UNCHANGED <<waiting, submitted, assigned, rejected>>

\* transition, Withdraw
Withdraw(worker) ==
    /\ available' = SelectSeq(available, LAMBDA w : w # worker)
    /\ owed' = owed \ {worker}
    /\ UNCHANGED <<waiting, submitted, assigned, rejected>>

Next == Submit \/ \E w \in Workers : Announce(w) \/ Withdraw(w)

Spec == Init /\ [][Next]_vars

-----------------------------------------------------------------------------
(* Properties.                                                               *)

\* Jobs reach workers in the order of submission, each once; no accepted job is
\* overtaken by one that found a worker waiting, and none is lost.
FirstSubmittedFirst ==
    assigned \o waiting = SelectSeq([i \in 1..submitted |-> i], LAMBDA j : j \notin rejected)

\* A worker never idles beside waiting work, and an idle worker is entitled to
\* one assignment however often it announced, to none after it withdrew.
AvailabilityIsExact ==
    /\ available = <<>> \/ waiting = <<>>
    /\ ToSet(available) = owed /\ Len(available) = Cardinality(owed)
=============================================================================
