\* One serialized supervisor call; the process never dies; the unlink of a file
\* may fail.
CONSTANTS
  Paths = {p1, p2}
  Clients = {c1}
  Others = {o1}
  Sup = Sup
  NoOwner = NoOwner
  Uids <- MCUids
  MaxDowns = 0
  CallerSerializes = TRUE
  Faults = {"unlink"}
SPECIFICATION Spec
PROPERTY UnlockReleases
