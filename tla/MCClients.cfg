SPECIFICATION Spec
CONSTANTS
  Callers = {"a", "b"}
  Window = 4
  BackoffCap = 3
  Horizon = 9
  Scenes <- EveryCall
  Users = {"p", "q"}
  Agents = {"a", "b"}
  Messages = {"m", "n"}
  Checkpoints = {"c1", "c2"}
  NoId = NoId
  Scripts <- EveryScript
  Connects = {c1, c2}
  Servers = {s1, s2}
  ToolNames = {t1, t2}
  Allowed = {t1}
  Timeout = 4
  RpcTicks = 1
  Watchers = {w1}
  Patience = 2
  MaxChanges = 3
INVARIANTS
  InLimits
  Honest
  SessionKept
  PointerNamesSaved
  ConnectsInTime
  WatcherHonest
CHECK_DEADLOCK FALSE
