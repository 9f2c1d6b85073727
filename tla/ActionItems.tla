---------------------------- MODULE ActionItems ----------------------------
(***************************************************************************)
(* The vocabulary of the action items.  Every item a transition can put    *)
(* into its Actions fixes, by its Accepted, Rejection and Prerequisite      *)
(* types, which replies an interpreter may give it: an empty set (the       *)
(* code's Never) removes the reply.  Corruption needs no declaration.       *)
(***************************************************************************)

\* A same-action creation an item may wait for.
CreationCorrelation == {"Creation"}

Vocabulary(rejection, prerequisite) ==
  [retained |-> {}, rejection |-> rejection, prerequisite |-> prerequisite]

Delivery == Vocabulary({"UnknownAddress", "ClosedRecipient"}, {})

EstablishedDelivery == Vocabulary({"ClosedRecipient"}, {})

ReportToParent == Vocabulary({"ClosedParentControlLane"}, {})

Creations == Vocabulary({"ChildNamespaceExhausted"}, {})

\* One routed child of a batch; its reasons are CreationRejection.
RoutedCreation ==
  Vocabulary({"CorrelationAlreadyRecorded", "Allocation", "InitializationFailed",
              "EnvironmentFailed"}, {})

ChildDelivery ==
  Vocabulary({"MissingBinding", "ClosedRecipient"}, CreationCorrelation)

ChildInput ==
  Vocabulary({"MissingBinding", "ClosedControlLane"}, CreationCorrelation)

ObservePeer == Vocabulary({"UnknownAddress"}, {})

ObserveChild == Vocabulary({}, CreationCorrelation)

ObserveCreation == Vocabulary({}, CreationCorrelation)

ObserveEstablishedCreation == Vocabulary({}, CreationCorrelation)

ShutdownChild ==
  Vocabulary({"NotEstablished", "AlreadyStopping"}, CreationCorrelation)

ObserveEstablished == Vocabulary({}, {})

CancelObservation == Vocabulary({}, {})

ShutdownEstablished == Vocabulary({"AlreadyStopping", "AlreadyStopped"}, {})

ReportTerminalOutcome == Vocabulary({}, {})

ReportShutdownPlan == Vocabulary({}, {})

ScheduleAt ==
  Vocabulary({"QueueGenerationExhausted", "QueueSequenceExhausted"}, {})

ScheduleAfter ==
  Vocabulary({"DeadlineOverflow", "QueueGenerationExhausted",
              "QueueSequenceExhausted"}, {})

PrepareWorkers == Vocabulary({}, {})

InitializeWorker == Vocabulary({}, {})

StartWorker == Vocabulary({"OwnerStopped"}, {})

AssignWorker == Vocabulary({"ClosedRecipient"}, {})

ProxyOperation == Vocabulary({"MissingBinding", "ClosedControlLane"}, {})

CustomerDelivery == Vocabulary({"UnknownAddress", "ClosedRecipient"}, {})

\* The only item with an accepted value that is kept (retain_accepted): a
\* diagnostic with no route to go to.
DiagnosticAction ==
  [retained |-> {"Terminal"}, rejection |-> {"UnknownAddress", "ClosedRecipient"},
   prerequisite |-> {}]

\* The replies an item's types admit.
Replies(item) ==
  {"Accepted", "Corrupt"} \cup item.retained
    \cup {"Rejected" : r \in item.rejection}
    \cup {"Blocked" : p \in item.prerequisite}
=============================================================================
