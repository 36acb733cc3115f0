\* Debug build: the destructors' DCHECKs end the process.  No symmetry, for the
\* liveness property.
CONSTANTS
  Conns = {c1}
  SessionPtrs = {s1, s2}
  OperationPtrs = {o1}
  SessionHandles = {h1, h2}
  OperationHandles = {p1, p2}
  NoConn = NoConn
  NoHandle = NoHandle
  NDEBUG = FALSE
  PyService = PyService
  Nobody = Nobody
SPECIFICATION PySpec
CHECK_DEADLOCK FALSE
INVARIANTS ParentsOutliveChildren CleanNeverAborts CollectedIsClosed
PROPERTIES GarbageIsCollected
