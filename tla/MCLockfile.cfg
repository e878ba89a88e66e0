\* Callers serialize same-path calls; the process may exit or be killed once;
\* the lockfile child and the unlink of a file may fail.
CONSTANTS
  Paths = {p1, p2}
  Clients = {c1, c2}
  Others = {o1}
  Sup = Sup
  NoOwner = NoOwner
  Uids <- MCUids
  MaxDowns = 1
  CallerSerializes = TRUE
  Faults = {"exec", "unlink"}
SPECIFICATION Spec
INVARIANT HeldLocksOwned
PROPERTIES ExitRemovesOwnOrReleasing LockCallsReturn
