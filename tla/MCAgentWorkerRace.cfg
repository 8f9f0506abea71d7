SPECIFICATION Spec
CONSTANTS
  r1 = r1
  r2 = r2
  c1 = c1
  c2 = c2
  echo = echo
  clear = clear
  NoReq = NoReq
  NoCall = NoCall
  NoCmd = NoCmd
  Requests = {r1}
  Calls = {c1}
  CompactCalls = {}
  MaxRounds = 1
  MaxCalls = 1
  Commands = {echo}
  ClearCommands = {}
  Faults <- NoFaults
INVARIANTS NeverStuck
CHECK_DEADLOCK FALSE
