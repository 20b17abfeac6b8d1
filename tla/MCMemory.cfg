SPECIFICATION AllSpec
CONSTANTS
  Dispatches = {d1, d2}
  Keep = 1
  Interval = 2
  MaxExchanges = 3
  MaxResets = 1
  Chats = {a, b}
  EveryTurns = 2
  OverlapTurns = 1
  MaxSaid = 4
  MaxClears = 1
  Known = {k1, k2}
  Wordings = {1, 2}
  Writers = {w1}
  Mergers = {c1}
  MaxEntries = 2
  MaxForgets = 1
  GraphTexts <- MCGraphTexts
  Queries <- MCQueries
  Others <- MCOthers
  Lasting = {"g"}
  Adds = {p, q}
  MaxId = 2
  None = None
INVARIANTS AllTypeOK HistoryExact SummaryExact NotesAreCurrent StoresAreSound
PROPERTY NothingIsUndone
CONSTRAINT Undisturbed
SYMMETRY Symmetry
CHECK_DEADLOCK FALSE
