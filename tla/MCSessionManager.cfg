SPECIFICATION Spec
CONSTANTS
  ma = ma
  mb = mb
  turn = turn
  command = command
  edit = edit
  mutate = mutate
  mark = mark
  turnB = turnB
  finalizeB = finalizeB
  NoOp = NoOp
  Managers = {ma, mb}
  Ops = {turn, mutate, command, edit, mark, finalizeB}
  ManagerOf <- MCManagerOf
  KindOf <- MCKindOf
  Backend = "sqlite"
  Faults <- FaultKinds
INVARIANTS TypeOK DoneIsStored RecordHasTurn OwnWriteCached
PROPERTIES NoLostUpdate CacheRevisionGrows
CHECK_DEADLOCK FALSE
