-------------------------------- MODULE Drain --------------------------------
(***************************************************************************)
(* ShutdownDeadline (templates/drain.rs): how long a retiring pool or      *)
(* supervisor waits for the actors it owns before it lets go of them.      *)
(***************************************************************************)

Deadlines == {"Unlimited", "Scheduling", "Waiting", "NotScheduled", "Elapsed"}

DeadlineBegin(limited) == IF limited THEN "Scheduling" ELSE "Unlimited"

DeadlineSettled(accepted) == IF accepted THEN "Waiting" ELSE "NotScheduled"

(* The owner no longer waits.                                              *)
Expired(deadline) == deadline \in {"NotScheduled", "Elapsed"}
==============================================================================
