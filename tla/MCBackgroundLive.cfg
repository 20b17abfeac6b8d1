SPECIFICATION AllSpec
CONSTANTS
    Sides = {"cron", "mcp"}
    Runs = {r1}
    MaxCrashes = 1
    Jobs = {j1, j2}
    HeartbeatJobs = {}
    FileJobs = {}
    Slots = {1, 2}
    MaxRetries = 1
    MaxOrphans = 0
    MaxOps = 2
    MaxEnds = 1
    MaxFaults = 1
    MaxCommits = 1
    MaxGates = 1
    MaxReboots = 1
    Ids = {s1}
    MaxSessions = 1
    MaxProcs = 1
    Execs = {1}
    LongRuns = {1}
    MaxBuffer = 2
    Callers = {k1, k2}
    StartUp = startup
    MaxRespawns = 1
    MaxCalls = 2
    Users = {u1}
    MaxUses = 1
    Requests = {q1, q2}
    MaxRefreshes = 1
    MaxPosts = 1
PROPERTY NothingIsLeftWaiting
CHECK_DEADLOCK FALSE
