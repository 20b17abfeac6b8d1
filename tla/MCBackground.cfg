SPECIFICATION AllSpec
CONSTANTS
    Sides = {"journal", "cron", "selfmod", "exec", "sandbox", "mcp", "tokens"}
    Runs = {r1, r2, r3}
    MaxCrashes = 3
    Jobs = {j1, j2, j3}
    HeartbeatJobs = {j3}
    FileJobs = {}
    Slots = {1, 2}
    MaxRetries = 1
    MaxOrphans = 1
    MaxOps = 2
    MaxEnds = 1
    MaxFaults = 1
    MaxCommits = 5
    MaxGates = 2
    MaxReboots = 1
    Ids = {s1}
    MaxSessions = 1
    MaxProcs = 2
    Execs = {1, 2}
    LongRuns = {1}
    MaxBuffer = 2
    Callers = {k1, k2}
    StartUp = startup
    MaxRespawns = 1
    MaxCalls = 3
    Users = {u1, u2, u3}
    MaxUses = 4
    Requests = {q1, q2}
    MaxRefreshes = 3
    MaxPosts = 4
INVARIANTS AllTypeOK NotesAreTrue SweepIsComplete MergesAreSound RunsAreInHand
CHECK_DEADLOCK FALSE
