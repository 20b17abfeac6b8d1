SPECIFICATION AllSpec
CONSTANTS
  Parts = {p1, p2, p3}
  Msgs = {m1, m2, m3, yes, stop1}
  Stops = {stop1}
  Confirms = {yes}
  MaxHits = 3
  Categories = {"chat", "web_search", "research", "exec"}
  Hinted = {"chat", "exec"}
  Default = "chat"
  SystemOne = FALSE
  Tools = {"fetch", "write"}
  ToolsOf <- MCToolsOf
  Policies <- MCPolicies
  Arena = {"web_search", "exec"}
  Piped = {"research", "web_search"}
  MaxMessages = 2
  None = None
INVARIANTS AllTypeOK QueueHasOwner ReachesOnce StopHitsItsRun PartsAreKept HandingOnIsSound
PROPERTY MessagesEnd
CHECK_DEADLOCK FALSE
