\* Debug build: the destructors' DCHECKs end the process.
CONSTANTS
  Conns = {c1, c2}
  SessionPtrs = {s1, s2}
  OperationPtrs = {o1, o2}
  SessionHandles = {h1, h2}
  OperationHandles = {p1, p2}
  NoConn = NoConn
  NoHandle = NoHandle
  NDEBUG = FALSE
SYMMETRY Symmetry
SPECIFICATION Spec
CHECK_DEADLOCK FALSE
INVARIANTS HandleOwnership NoLeakOnIntactConnection OpenHandleIsLive CloseOKReleases
