\* Callers may lock and unlock one path at the same time; the process never dies;
\* no I/O fault, so that only the interleaving of the two calls is at work.
CONSTANTS
  Paths = {p1, p2}
  Clients = {c1, c2}
  Others = {o1}
  Sup = Sup
  NoOwner = NoOwner
  Uids <- MCUids
  MaxDowns = 0
  CallerSerializes = FALSE
  Faults = {}
SPECIFICATION Spec
INVARIANT OwnLocksTracked
