\* One supervisor call, serialized; the process may exit or be killed once and
\* restart; no I/O fault, so that only the death is at work.
CONSTANTS
  Paths = {p1, p2}
  Clients = {c1}
  Others = {o1}
  Sup = Sup
  NoOwner = NoOwner
  Uids <- MCUids
  MaxDowns = 1
  CallerSerializes = TRUE
  Faults = {}
SPECIFICATION Spec
INVARIANT OwnLocksTracked
