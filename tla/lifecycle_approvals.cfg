CONSTANTS
  c1 = c1
  c2 = c2
  t1 = t1
  Requests = {r1, r2}
  Plans = {p1}
  Cores = {c1, c2}
  Tools = {t1}
  Builtin = {t1}
  ToolsOf <- NoAndOneTool
  NoPlan = NoPlan
  NoHash = NoHash
  Absent = Absent
  Torn = Torn
  Budget <- EveryFault
SPECIFICATION Spec
SYMMETRY SymRequests
INVARIANT RunsOnlyGranted
PROPERTY OneRunPerApproval
