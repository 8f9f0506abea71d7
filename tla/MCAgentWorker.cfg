SPECIFICATION Spec
CONSTANTS
  r1 = r1
  r2 = r2
  c1 = c1
  c2 = c2
  echo = echo
  clear = clear
  NoReq = NoReq
  NoCall = NoCall
  NoCmd = NoCmd
  Requests = {r1, r2}
  Calls = {c1, c2}
  CompactCalls = {c2}
  MaxRounds = 1
  MaxCalls = 1
  Commands = {echo, clear}
  ClearCommands = {clear}
  Faults <- AllFaults
SYMMETRY RequestSymmetry
INVARIANTS TypeOK EventsInOrder RecordedIsAnswered CacheIsStore PrefixKept
PROPERTIES SentIsStored NoLostUpdate ImplementsLife
CHECK_DEADLOCK FALSE
