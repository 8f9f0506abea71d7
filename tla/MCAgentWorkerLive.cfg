SPECIFICATION FairSpec
CONSTANTS
  r1 = r1
  r2 = r2
  c1 = c1
  c2 = c2
  echo = echo
  clear = clear
  NoReq = NoReq
  NoCall = NoCall
  NoCmd = NoCmd
  Requests = {r1, r2}
  Calls = {c1, c2}
  CompactCalls = {c2}
  MaxRounds = 2
  MaxCalls = 2
  Commands = {clear}
  ClearCommands = {clear}
  Faults <- ReportedFaults
INVARIANTS RoundsComplete
PROPERTIES EveryRequestCompletes
CHECK_DEADLOCK FALSE
