\* One serialized supervisor call; the process never dies; the lockfile child
\* may fail.
CONSTANTS
  Paths = {p1, p2}
  Clients = {c1}
  Others = {o1}
  Sup = Sup
  NoOwner = NoOwner
  Uids <- MCUids
  MaxDowns = 0
  CallerSerializes = TRUE
  Faults = {"exec"}
SPECIFICATION Spec
INVARIANT OwnLocksTracked
