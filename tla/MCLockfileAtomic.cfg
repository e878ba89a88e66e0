\* Two serialized supervisor calls, another process, no process death; the
\* lockfile child and the unlink of a file may fail.
CONSTANTS
  Paths = {p1, p2}
  Clients = {c1, c2}
  Others = {o1}
  Sup = Sup
  NoOwner = NoOwner
  Uids <- MCUids
  MaxDowns = 0
  CallerSerializes = TRUE
  Faults = {"exec", "unlink"}
SPECIFICATION Spec
PROPERTY CallsAtomic
