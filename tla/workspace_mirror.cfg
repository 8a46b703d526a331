CONSTANTS
  Plans = {p1}
  None = None
  NoDir = NoDir
  Requests = {r1, r2}
  Cores = {c1, d1, u1}
  Denied = {d1}
  Unsupervised = {u1}
  MaxFaults = 1
SPECIFICATION Spec
SYMMETRY SymRequests
INVARIANTS TypeOK MirrorFaithful EvidenceNeverAhead
PROPERTIES StoreImplementsAuthority EvidenceNeverVanishes
