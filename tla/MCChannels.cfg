SPECIFICATION AllSpec
CONSTANTS
  Mails = {1, 2, 3}
  Allowed = {1, 3}
  Polls = {"p", "q"}
  Page = 2
  MaxFails = 2
  Limit = 3
  MaxText = 5
  Requests = {"p", "q"}
  MaxClock = 1
  MaxTexts = 2
  Targets = {"room"}
  Typed = {"x"}
  Turns = {"t"}
  MaxResets = 1
  MaxToggles = 2
  Elements = {1, 2, 3}
  Backends = {"local"}
  MaxSteps = 2
  Calls = {"c", "d", "e"}
  Consoles = {"c", "d"}
  Loops = {"l", "m"}
  Clients = {"k", "j"}
  MaxLosses = 1
  Sends = {"c", "d", "e"}
  Urls = {"l", "m"}
  MaxClears = 1
  Lines = 3
  MaxAttempts = 4
  Embeds = {1, 2, 3}
  Interval = 2
  MaxTime = 6
  None = None
INVARIANTS AllTypeOK ArrivesWhole ResultsAreTheCalls  
PROPERTY EverythingEnds
CHECK_DEADLOCK FALSE
