SPECIFICATION Spec
CONSTANTS
  sendA = sendA
  sendB = sendB
  runX = runX
  send_message = send_message
  exec = exec
  roomA = roomA
  roomB = roomB
  NoTarget = NoTarget
  Principals = {alice, bob}
  Channels = {chat, console}
  Continues = {chat}
  Calls = {sendA, runX}
  Tools = {send_message, exec}
  Targets = {roomA, NoTarget}
  ToolOf <- MCToolOf
  TargetOf <- MCTargetOf
  TTL = 1
  LongTTL = 2
  BareAge = 0
  MaxIds = 2
  MaxGrants = 1
  MaxTime = 2
INVARIANTS AtMostOnce GrantsJustified
PROPERTIES SpentStaysSpent BareRunsNewest ImplementsContract
SYMMETRY People
