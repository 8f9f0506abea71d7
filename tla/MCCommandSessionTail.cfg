SPECIFICATION Spec
CONSTANTS
  t1 = t1
  t2 = t2
  s1 = s1
  s2 = s2
  NoSession = NoSession
  Sessions = {s1}
  Threads = {t1, t2}
  ThreadOf <- MCThreadOf
  Streams = {"stdout", "stderr", "terminal"}
  StreamsOf <- MCStreamsOf
  Limits = {9}
  MaxWrites <- MCMaxWrites
  MaxChunks = 2
  MaxInputs = 1
INVARIANTS ReportedIsComplete
CHECK_DEADLOCK FALSE
