SPECIFICATION AllSpec
CONSTANTS
  Keys = {"k", "m"}
  EventKeys = {"m"}
  Late = 1
  LateByUTC = 2
  MaxDay = 3
  MaxTasks = 2
  Events = {"a", "b"}
  Title <- MCTitle
  Start <- MCStart
  Briefings = {1, 2}
  Horizon = 4
  KeepOpen = 1
  KeepAnswered = 1
  MaxAhead = 1
  Ttl = 1
  MaxTime = 3
  Paths = {"a"}
  Texts = {"x", "y"}
  Runs = {"r", "s"}
  MaxEdits = 3
  Items = {1, 2, 3}
  Seed = 9
  PerCycle = 2
  MaxVersion = 2
  MaxTrouble = 1
  Signatures = {s1, s2}
  MaxProposals = 3
  Facts = {fa, fb, fc}
  Commands = {o1}
  ReviewCount = 1
  MaxStale = 1
  Distrust = 2
  MaxPending = 2
  Copies = {x1, x2}
  Mails = {mail}
  MailOf <- MCMailOf
  MaxTold = 2
  MaxCrashes = 1
  Slugs = {"k", "l"}
  Often = 2
  MaxCands = 2
  MaxNew = 1
  MaxLog = 3
  MaxReplays = 1
  Shapes = {"j"}
  Commits = {"c", "d"}
  Window = 2
  MaxSignals = 3
  Near = 2
  None = None
INVARIANTS AllTypeOK NotBotheredTwice KeptIsFound LearnedIsEarned
PROPERTY WorkIsKept
SYMMETRY Symmetry
CHECK_DEADLOCK FALSE
