SPECIFICATION Spec
CONSTANTS
  t1 = t1
  t2 = t2
  k1 = k1
  k2 = k2
  k3 = k3
  NoKey = NoKey
  NoMsg = NoMsg
  m1 = m1
  m2 = m2
  m1again = m1again
  echo = echo
  clear = clear
  other = other
  slash = slash
  Threads = {t1, t2}
  Messages = {m1, m1again, other}
  Keys = {k1, k2, k3}
  ThreadOf <- MCThreadOf
  KeyOf <- MCKeyOf
  KindOf <- MCKindOf
  ReqCap = 2
  EvCap = 1
  MessageDedup = FALSE
  Faults <- NoFaults
PROPERTIES NoReprocess
CHECK_DEADLOCK FALSE
