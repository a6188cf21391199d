--------------------------- MODULE AioGrpcClient ---------------------------
(***************************************************************************)
(* The methods of DaprGrpcClientAsync that are one request.  It takes a    *)
(* retry policy too, but only save_state and converse_alpha2 use it.       *)
(***************************************************************************)
EXTENDS ClientMethods

\* A write with an etag is refused when the etag is old: its own first
\* attempt makes it so.
Write(etag) == IF etag THEN "once" ELSE "put"

InvokeMethod == Checked(Single("append"))
InvokeBinding == Checked(Single("append"))
PublishEvent == Checked(Wrapped(Single("append")))
PublishEvents == OrAlpha(Checked(Wrapped(Single("append"))))

GetState == Checked(Wrapped(Single("read")))
GetBulkState == Checked(Wrapped(Single("read")))
QueryState == Checked(Wrapped(Single("read")))
SaveState(etag) == Checked(Raising(Retried(Write(etag)), "DaprInternalError"))
SaveBulkState(etag) == Checked(Wrapped(Single(Write(etag))))
ExecuteStateTransaction(etag) == Checked(Wrapped(Single(Write(etag))))
DeleteState(etag) == Checked(Wrapped(Single(Write(etag))))

GetSecret == Single("read")
GetBulkSecret == Single("read")
GetConfiguration == Checked(Single("read"))
UnsubscribeConfiguration == Answering(Single("once"))

TryLock == Answering(Checked(Single("once")))
Unlock == Answering(Checked(Single("once")))

\* The end of a `with` unlocks what was locked, and drops the answer.
TryLockExit == Unlock

Encrypt == Checked(Single("read"))
Decrypt == Checked(Single("read"))
ConverseAlpha1 == Wrapped(Single("append"))
ConverseAlpha2 == Wrapped(Retried("append"))

ScheduleJob(overwrite) == OrAlpha(Checked(Wrapped(Single(Write(~overwrite)))))
GetJob == OrAlpha(Checked(Wrapped(Single("read"))))
DeleteJob == OrAlpha(Checked(Wrapped(Single("put"))))

\* The names of the alpha API forward to these.
ScheduleJobAlpha1(overwrite) == ScheduleJob(overwrite)
GetJobAlpha1 == GetJob
DeleteJobAlpha1 == DeleteJob

GetMetadata == Wrapped(Single("read"))
SetMetadata == Checked(Single("put"))
Shutdown == Single("put")

(* The DaprClient of dapr.aio calls services over HTTP unless it is told   *)
(* otherwise.  The HTTP client is not given the retry policy of the other. *)
Protocols == {"HTTP", "GRPC"}
DaprClientInvokeMethod(protocol) ==
  IF protocol = "HTTP" THEN Call("http", "append") ELSE InvokeMethod

Api ==
  {InvokeMethod, InvokeBinding, PublishEvent, PublishEvents, GetState, GetBulkState,
   QueryState, GetSecret, GetBulkSecret, GetConfiguration, UnsubscribeConfiguration,
   TryLock, Unlock, Encrypt, Decrypt, ConverseAlpha1, ConverseAlpha2, GetJob, DeleteJob,
   GetJobAlpha1, DeleteJobAlpha1, TryLockExit, GetMetadata, SetMetadata, Shutdown}
  \cup UNION {{SaveState(x), SaveBulkState(x), ExecuteStateTransaction(x), DeleteState(x),
              ScheduleJob(x), ScheduleJobAlpha1(x)} : x \in BOOLEAN}
  \cup {DaprClientInvokeMethod(protocol) : protocol \in Protocols}
=============================================================================
