---------------------------- MODULE ProxyContract ----------------------------
(***************************************************************************)
(* What a stable proxy promises its owner, without saying how: one         *)
(* submission at a time is worked on, each gets one disposition, commands  *)
(* reach only the worker last reported ready, the predecessor's departure  *)
(* is reported before a successor is ready, and closing is final.          *)
(***************************************************************************)
EXTENDS Naturals, Sequences

CONSTANT MaxAttempts

VARIABLES
    phase,      \* what the owner can know of the proxy
    issued,     \* submissions that were given an attempt
    reports,    \* what was reported about each attempt
    served      \* attempts that received a service command

contractVars == <<phase, issued, reports, served>>

Failures == {<<"Unavailable">>, <<"CreationRejected">>}

Init ==
    /\ phase = "Empty"
    /\ issued = 0
    /\ reports = [a \in 1..MaxAttempts |-> <<>>]
    /\ served = {}

InService(a) == reports[a] = <<"Ready">>

Serve ==
    /\ phase = "Ready"
    /\ \E a \in 1..issued : InService(a) /\ served' = served \cup {a}
    /\ UNCHANGED <<phase, issued, reports>>

Submit ==
    /\ phase \in {"Empty", "Ready"}
    /\ issued < MaxAttempts
    /\ issued' = issued + 1
    /\ phase' = "Working"
    /\ UNCHANGED <<reports, served>>

\* The worker in service is reported stopped, lost or making room.
Depart ==
    /\ phase \in {"Ready", "Working"}
    /\ \E a \in 1..issued :
          /\ InService(a)
          /\ reports' = [reports EXCEPT ![a] = <<"Ready", "WorkerStopped">>]
    /\ phase' = IF phase = "Ready" THEN "Empty" ELSE phase
    /\ UNCHANGED <<issued, served>>

\* The attempt in work is settled, once its predecessor's departure is reported.
Settle ==
    /\ phase = "Working"
    /\ reports[issued] = <<>>
    /\ \A a \in 1..issued : ~InService(a)
    /\ \/ /\ phase' = "Ready"
          /\ reports' = [reports EXCEPT ![issued] = <<"Ready">>]
       \/ /\ phase' = "Empty"
          /\ \E r \in Failures \cup {<<"Ready", "WorkerStopped">>} :
                reports' = [reports EXCEPT ![issued] = r]
    /\ UNCHANGED <<issued, served>>

\* Closing hands back a submission that no worker was created for.
Close ==
    /\ phase \in {"Empty", "Working", "Ready"}
    /\ phase' = IF phase = "Empty" THEN "Stopped" ELSE "Closing"
    /\ \/ UNCHANGED reports
       \/ /\ phase = "Working" /\ reports[issued] = <<>>
          /\ reports' = [reports EXCEPT ![issued] = <<"CancelledBeforeBirth">>]
    /\ UNCHANGED <<issued, served>>

Stop ==
    /\ phase = "Closing"
    /\ phase' = "Stopped"
    /\ UNCHANGED <<issued, reports, served>>

Next == Serve \/ Submit \/ Depart \/ Settle \/ Close \/ Stop

Spec == Init /\ [][Next]_contractVars
=============================================================================
