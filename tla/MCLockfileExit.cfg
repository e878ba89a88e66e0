\* Two supervisor calls, serialized; the process may exit once while an unlock
\* is in flight; no I/O fault.
CONSTANTS
  Paths = {p1, p2}
  Clients = {c1, c2}
  Others = {o1}
  Sup = Sup
  NoOwner = NoOwner
  Uids <- MCUids
  MaxDowns = 1
  CallerSerializes = TRUE
  Faults = {}
SPECIFICATION Spec
PROPERTY ExitRemovesOnlyOwn
