-------------------------------- MODULE Mcp ---------------------------------
(***************************************************************************)
(* DaprMCPClient, in both its forms: connect schedules the ListTools       *)
(* workflow of an MCP server, again while the sidecar is not ready, waits  *)
(* for it, and keeps the tools it returned.  The calls of connect of an    *)
(* asyncio client may overlap.                                             *)
(*                                                                         *)
(* Time is in halves of a second, the interval between two attempts.       *)
(***************************************************************************)
EXTENDS Naturals, FiniteSets, FiniteSetsExt

CONSTANTS
  Connects,     \* calls of connect
  Servers,      \* MCP servers
  ToolNames,
  Allowed,      \* allowed_tools
  Timeout,      \* timeout_in_seconds, in halves
  RpcTicks      \* bound: how long the sidecar takes to answer

ASSUME McpAssumption ==
  Timeout \in Nat \ {0} /\ RpcTicks \in Nat /\ Allowed \subseteq ToolNames

VARIABLES
  clock,          \* time.monotonic
  connects,     \* connect: its stage, server, deadline and the end of what it does
  listing,      \* the ListTools workflow of a connect
  server_tools  \* _server_tools: a set of servers to sets of tools

mcpVars == <<clock, connects, listing, server_tools>>

Running == {"scheduling", "sleeping", "waiting"}

Move(c, stage, until) ==
  connects' = [connects EXCEPT ![c].stage = stage, ![c].until = until]

Raises(c) == Move(c, "raised", clock)

Remaining(c) == IF connects[c].deadline > clock THEN connects[c].deadline - clock ELSE 0

----------------------------------------------------------------------------
(* connect                                                                 *)

Connect(c, s) ==
  /\ connects[c].stage = "none"
  /\ connects' = [connects EXCEPT ![c] =
       [stage |-> "scheduling", server |-> s, deadline |-> clock + Timeout, until |-> clock + RpcTicks]]
  /\ UNCHANGED <<clock, listing, server_tools>>

\* A slip: the wait has the whole timeout again.
WaitForAll(remaining) == Timeout

\* max(int(remaining), 1), in seconds
WaitFor(remaining) == Max({2 * (remaining \div 2), 2})

Scheduled(c) ==
  /\ connects[c].stage = "scheduling" /\ listing[c].status # "none"
  /\ IF Remaining(c) = 0 THEN Raises(c) ELSE Move(c, "waiting", clock + WaitFor(Remaining(c)))
  /\ UNCHANGED <<clock, listing, server_tools>>

\* CANCELLED or UNAVAILABLE, whether or not the sidecar has started it.
ScheduleRetries(c) ==
  /\ connects[c].stage = "scheduling"
  /\ IF Remaining(c) = 0 THEN Raises(c) ELSE Move(c, "sleeping", clock + 1)
  /\ UNCHANGED <<clock, listing, server_tools>>

\* Any other error: the instance may exist already.
ScheduleFails(c) ==
  /\ connects[c].stage = "scheduling"
  /\ Raises(c)
  /\ UNCHANGED <<clock, listing, server_tools>>

Wakes(c) ==
  /\ connects[c].stage = "sleeping" /\ clock = connects[c].until
  /\ Move(c, "scheduling", clock + RpcTicks)
  /\ UNCHANGED <<clock, listing, server_tools>>

\* The tools of the server are replaced, all at once.
process_list_tools_result(c) ==
  /\ server_tools' = [server_tools EXCEPT ![connects[c].server] = {listing[c].tools \cap Allowed}]
  /\ Move(c, "returned", clock)

\* An instance that is gone, has failed or returned malformed JSON raises.
WaitReturns(c) ==
  /\ connects[c].stage = "waiting" /\ listing[c].status \notin {"none", "running"}
  /\ \/ listing[c].status = "completed" /\ process_list_tools_result(c)
     \/ listing[c].status # "completed" /\ Raises(c) /\ UNCHANGED server_tools
  /\ UNCHANGED <<clock, listing>>

ListingExpires(c) ==
  /\ connects[c].stage = "waiting" /\ clock = connects[c].until
  /\ Raises(c)
  /\ UNCHANGED <<clock, listing, server_tools>>

----------------------------------------------------------------------------
(* The sidecar and the clock, external.                                    *)

\* The attempts of a connect share an instance, which starts once.
StartInstance(c) ==
  /\ connects[c].stage \in Running /\ listing[c].status = "none"
  /\ listing' = [listing EXCEPT ![c] = [status |-> "running", tools |-> {}]]
  /\ UNCHANGED <<clock, connects, server_tools>>

ListTools(c, status, tools) ==
  /\ listing[c].status = "running"
  /\ listing' = [listing EXCEPT ![c] = [status |-> status, tools |-> tools]]
  /\ UNCHANGED <<clock, connects, server_tools>>

\* Nothing outlasts its end: sleeps and waits are exact.
ClockTicks ==
  /\ \E c \in Connects : connects[c].stage \in Running
  /\ \A c \in Connects : connects[c].stage \in Running => clock < connects[c].until
  /\ clock' = clock + 1
  /\ UNCHANGED <<connects, listing, server_tools>>

McpInit ==
  /\ clock = 0
  /\ connects = [c \in Connects |->
       [stage |-> "none", server |-> CHOOSE s \in Servers : TRUE, deadline |-> 0, until |-> 0]]
  /\ listing = [c \in Connects |-> [status |-> "none", tools |-> {}]]
  /\ server_tools = [s \in Servers |-> {}]

McpNext ==
  \/ \E c \in Connects :
       \/ \E s \in Servers : Connect(c, s)
       \/ Scheduled(c)
       \/ ScheduleRetries(c)
       \/ ScheduleFails(c)
       \/ Wakes(c)
       \/ WaitReturns(c)
       \/ ListingExpires(c)
       \/ StartInstance(c)
       \/ \E status \in {"completed", "failed", "gone", "malformed"}, tools \in SUBSET ToolNames :
            ListTools(c, status, IF status = "completed" THEN tools ELSE {})
  \/ ClockTicks

McpSpec == McpInit /\ [][McpNext]_mcpVars

----------------------------------------------------------------------------
(* The end of a connect.                                                   *)

\* A connect ends with its timeout, give or take an answer of the sidecar or
\* the second that a wait has at least.
InTime ==
  \A c \in Connects :
    connects[c].stage \in Running => clock <= connects[c].deadline + Max({RpcTicks, 2})

\* The tools of a server are those of a listing that completed for it, and
\* a server is connected exactly if a connect to it has returned.
FromListing ==
  \A s \in Servers :
    LET done == {c \in Connects : connects[c].server = s /\ connects[c].stage = "returned"} IN
    /\ server_tools[s] # {} <=> done # {}
    /\ server_tools[s] \subseteq {listing[c].tools \cap Allowed : c \in done}

\* connect returns or raises in time, whatever is retried on the way, and
\* leaves the tools of a listing that completed (mcp.py, connect).
ConnectsInTime == InTime /\ FromListing
=============================================================================
