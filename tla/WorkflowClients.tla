-------------------------- MODULE WorkflowClients --------------------------
(***************************************************************************)
(* The requests of TaskHubGrpcClient, and DaprWorkflowClient on top of it. *)
(***************************************************************************)
EXTENDS ClientMethods

\* An instance id that is given can be used only once.
ScheduleNewOrchestration(named) == Single(IF named THEN "once" ELSE "append")
GetOrchestrationState == Single("read")
WaitForOrchestrationStart == Call("wait", "read")
WaitForOrchestrationCompletion == Call("wait", "read")
RaiseOrchestrationEvent == Single("append")
TerminateOrchestration == Single("put")
SuspendOrchestration == Single("put")
ResumeOrchestration == Single("put")
PurgeOrchestration == Single("put")

ScheduleNewWorkflow(named) == ScheduleNewOrchestration(named)
GetWorkflowState == Answering(GetOrchestrationState)  \* None for no such instance
WaitForWorkflowStart == WaitForOrchestrationStart
WaitForWorkflowCompletion == WaitForOrchestrationCompletion
RaiseWorkflowEvent == RaiseOrchestrationEvent
TerminateWorkflow == TerminateOrchestration
PauseWorkflow == SuspendOrchestration
ResumeWorkflow == ResumeOrchestration
PurgeWorkflow == PurgeOrchestration

Api ==
  {ScheduleNewWorkflow(TRUE), ScheduleNewWorkflow(FALSE), GetWorkflowState,
   WaitForWorkflowStart, WaitForWorkflowCompletion, RaiseWorkflowEvent, TerminateWorkflow,
   PauseWorkflow, ResumeWorkflow, PurgeWorkflow}
=============================================================================
