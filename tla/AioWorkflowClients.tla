------------------------- MODULE AioWorkflowClients -------------------------
(***************************************************************************)
(* AsyncTaskHubGrpcClient and the DaprWorkflowClient on top of it make the *)
(* requests of WorkflowClients, with awaits; the channel is opened by the  *)
(* first of them.                                                          *)
(***************************************************************************)
Sync == INSTANCE WorkflowClients

ScheduleNewOrchestration(named) == Sync!ScheduleNewOrchestration(named)
GetOrchestrationState == Sync!GetOrchestrationState
WaitForOrchestrationStart == Sync!WaitForOrchestrationStart
WaitForOrchestrationCompletion == Sync!WaitForOrchestrationCompletion
RaiseOrchestrationEvent == Sync!RaiseOrchestrationEvent
TerminateOrchestration == Sync!TerminateOrchestration
SuspendOrchestration == Sync!SuspendOrchestration
ResumeOrchestration == Sync!ResumeOrchestration
PurgeOrchestration == Sync!PurgeOrchestration

ScheduleNewWorkflow(named) == Sync!ScheduleNewWorkflow(named)
GetWorkflowState == Sync!GetWorkflowState
WaitForWorkflowStart == Sync!WaitForWorkflowStart
WaitForWorkflowCompletion == Sync!WaitForWorkflowCompletion
RaiseWorkflowEvent == Sync!RaiseWorkflowEvent
TerminateWorkflow == Sync!TerminateWorkflow
PauseWorkflow == Sync!PauseWorkflow
ResumeWorkflow == Sync!ResumeWorkflow
PurgeWorkflow == Sync!PurgeWorkflow

Api ==
  {ScheduleNewWorkflow(TRUE), ScheduleNewWorkflow(FALSE), GetWorkflowState,
   WaitForWorkflowStart, WaitForWorkflowCompletion, RaiseWorkflowEvent, TerminateWorkflow,
   PauseWorkflow, ResumeWorkflow, PurgeWorkflow}
=============================================================================
