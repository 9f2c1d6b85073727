----------------------------- MODULE MCFifoPool -----------------------------
(* A small FifoPool for TLC. *)
EXTENDS FifoPool

Immediate == [kind |-> "Immediate", initial |-> 0, maximum |-> 0]
Delayed   == [kind |-> "Linear", initial |-> 1, maximum |-> 2]

MCConfigs ==
    {[policy |-> "Permanent", failure |-> "RetireRole", interruption |-> "Retry",
      faults |-> 2, limited |-> FALSE, release |-> Immediate],
     [policy |-> "Transient", failure |-> "StopPool", interruption |-> "Fail",
      faults |-> 2, limited |-> TRUE, release |-> Delayed],
     [policy |-> "Temporary", failure |-> "RetireRole", interruption |-> "Retry",
      faults |-> 1, limited |-> TRUE, release |-> Immediate]}

MCLimit == [maximum |-> 1, window |-> 2]
=============================================================================
