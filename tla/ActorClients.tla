---------------------------- MODULE ActorClients ----------------------------
(***************************************************************************)
(* The requests of the actor clients, over HTTP and over gRPC, and of      *)
(* service invocation over HTTP.                                           *)
(***************************************************************************)
EXTENDS ClientMethods

\* DaprHttpClient.send_bytes: the attempts of make_http_call, and an
\* exception for a status that is not a success.
SendBytes(effect) == Call("http", effect)

InvokeMethodAsync == SendBytes("append")
InvokeMethod == InvokeMethodAsync  \* on an event loop of its own

HttpInvokeMethod == SendBytes("append")
HttpSaveStateTransactionally == SendBytes("put")
HttpGetState == SendBytes("read")
HttpRegisterReminder == SendBytes("put")
HttpUnregisterReminder == SendBytes("put")
HttpRegisterTimer == SendBytes("put")
HttpUnregisterTimer == SendBytes("put")

GrpcInvokeMethod == Single("append")
GrpcSaveStateTransactionally == Single("put")
GrpcGetState == Answering(Single("read"))  \* NOT_FOUND is an empty state
GrpcRegisterReminder == Single("put")
GrpcUnregisterReminder == Single("put")
GrpcRegisterTimer == Single("put")
GrpcUnregisterTimer == Single("put")

\* An actor's own timers and reminders, through the client of its host.
RegisterTimer(http) == IF http THEN HttpRegisterTimer ELSE GrpcRegisterTimer
UnregisterTimer(http) == IF http THEN HttpUnregisterTimer ELSE GrpcUnregisterTimer
RegisterReminder(http) == IF http THEN HttpRegisterReminder ELSE GrpcRegisterReminder
UnregisterReminder(http) == IF http THEN HttpUnregisterReminder ELSE GrpcUnregisterReminder

\* ActorProxy: a body that is not bytes is refused, and so is the method of a
\* proxy without an interface that has it, or with two arguments.
ProxyInvokeMethod == Checked(HttpInvokeMethod)
ProxyAttribute == Checked(ProxyInvokeMethod)
CallableProxy == Checked(ProxyInvokeMethod)

Api ==
  {InvokeMethodAsync, HttpInvokeMethod, HttpSaveStateTransactionally, HttpGetState,
   HttpRegisterReminder, HttpUnregisterReminder, HttpRegisterTimer, HttpUnregisterTimer,
   GrpcInvokeMethod, GrpcSaveStateTransactionally, GrpcGetState, GrpcRegisterReminder,
   GrpcUnregisterReminder, GrpcRegisterTimer, GrpcUnregisterTimer,
   InvokeMethod, ProxyInvokeMethod, ProxyAttribute, CallableProxy}
  \cup UNION {{RegisterTimer(http), UnregisterTimer(http), RegisterReminder(http),
              UnregisterReminder(http)} : http \in BOOLEAN}
=============================================================================
