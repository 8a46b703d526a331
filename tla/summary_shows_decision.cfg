CONSTANTS
  Plans = {p1}
  None = None
  NoDir = NoDir
  Requests = {r1}
  Cores = {c1, c2, d1, u1}
  Denied = {d1}
  Unsupervised = {u1}
  MaxFaults = 0
SPECIFICATION Spec
INVARIANT SummaryShowsDecision
