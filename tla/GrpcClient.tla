----------------------------- MODULE GrpcClient -----------------------------
(***************************************************************************)
(* The methods of DaprGrpcClient that are one request.  What is in the     *)
(* request and in the response is left out; the subscriptions are streams, *)
(* in Subscription.                                                        *)
(***************************************************************************)
EXTENDS ClientMethods

\* A write with an etag is refused when the etag is old: its own first
\* attempt makes it so.
Write(etag) == IF etag THEN "once" ELSE "put"

InvokeMethod == Checked(Retried("append"))
InvokeBinding == Checked(Retried("append"))
PublishEvent == Checked(Wrapped(Retried("append")))
PublishEvents == OrAlpha(Checked(Wrapped(Retried("append"))))

GetState == Checked(Wrapped(Retried("read")))
GetBulkState == Checked(Wrapped(Retried("read")))
QueryState == Checked(Wrapped(Retried("read")))
SaveState(etag) == Checked(Wrapped(Retried(Write(etag))))
SaveBulkState(etag) == Checked(Wrapped(Retried(Write(etag))))
ExecuteStateTransaction(etag) == Checked(Wrapped(Retried(Write(etag))))
DeleteState(etag) == Checked(Wrapped(Retried(Write(etag))))

GetSecret == Retried("read")
GetBulkSecret == Retried("read")
GetConfiguration == Checked(Retried("read"))
UnsubscribeConfiguration == Answering(Single("once"))

TryLock == Answering(Checked(Retried("once")))
Unlock == Answering(Checked(Retried("once")))

\* The end of a `with` unlocks what was locked, and drops the answer.
TryLockExit == Unlock

Encrypt == Checked(Single("read"))
Decrypt == Checked(Single("read"))
ConverseAlpha1 == Wrapped(Retried("append"))
ConverseAlpha2 == Wrapped(Retried("append"))

ScheduleJob(overwrite) == OrAlpha(Checked(Wrapped(Retried(Write(~overwrite)))))
GetJob == OrAlpha(Checked(Wrapped(Retried("read"))))
DeleteJob == OrAlpha(Checked(Wrapped(Retried("put"))))

\* The names of the alpha API forward to these.
ScheduleJobAlpha1(overwrite) == ScheduleJob(overwrite)
GetJobAlpha1 == GetJob
DeleteJobAlpha1 == DeleteJob

GetMetadata == Wrapped(Retried("read"))
SetMetadata == Checked(Retried("put"))
Shutdown == Retried("put")

(* DaprClient calls services over HTTP unless it is told                   *)
(* otherwise.  The HTTP client is not given the retry policy of the other. *)
Protocols == {"HTTP", "GRPC"}
DaprClientInvokeMethod(protocol) ==
  IF protocol = "HTTP" THEN Call("http", "append") ELSE InvokeMethod

Api ==
  {InvokeMethod, InvokeBinding, PublishEvent, PublishEvents, GetState, GetBulkState,
   QueryState, GetSecret, GetBulkSecret, GetConfiguration, UnsubscribeConfiguration,
   TryLock, Unlock, Encrypt, Decrypt, ConverseAlpha1, ConverseAlpha2, GetJob, DeleteJob,
   GetJobAlpha1, DeleteJobAlpha1, TryLockExit, GetMetadata, SetMetadata, Shutdown}
  \cup UNION {{SaveState(x), SaveBulkState(x), ExecuteStateTransaction(x), DeleteState(x),
              ScheduleJob(x), ScheduleJobAlpha1(x)} : x \in BOOLEAN}
  \cup {DaprClientInvokeMethod(protocol) : protocol \in Protocols}
=============================================================================
