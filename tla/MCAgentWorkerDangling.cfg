SPECIFICATION Spec
CONSTANTS
  r1 = r1
  r2 = r2
  c1 = c1
  c2 = c2
  echo = echo
  clear = clear
  NoReq = NoReq
  NoCall = NoCall
  NoCmd = NoCmd
  Requests = {r1}
  Calls = {c1, c2}
  CompactCalls = {c2}
  MaxRounds = 1
  MaxCalls = 2
  Commands = {}
  ClearCommands = {}
  Faults <- NoFaults
INVARIANTS ResultsHaveCalls
CHECK_DEADLOCK FALSE
