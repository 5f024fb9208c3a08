SPECIFICATION FairSpec
CONSTANTS
  msg = msg
  s1 = s1
  s2 = s2
  hook = hook
  ws = ws
  other = other
  Messages = {msg}
  Slots = {s1, s2}
  Notes = {note}
  Agents = {}
  Dests = {hook}
  Dest <- Filters
  WorkspaceOf <- Workspaces
  None = None
  Limit = 1
  MaxAttempts = 1
  AutoDisableAfter = 2
  MaxTime = 2
  MaxFaults = 1
  MaxEdits = 1
  MaxOverwrites = 1
INVARIANTS TypeOK OnceUnlessRepeated AccountedFor
PROPERTIES EventuallyExported
