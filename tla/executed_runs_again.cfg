CONSTANTS
  c1 = c1
  c2 = c2
  t1 = t1
  Requests = {r1}
  Plans = {p1}
  Cores = {c1}
  Tools = {t1}
  Builtin = {t1}
  ToolsOf <- OneTool
  NoPlan = NoPlan
  NoHash = NoHash
  Absent = Absent
  Torn = Torn
  Budget <- NoFaults
SPECIFICATION Spec
PROPERTY ExecutedNeverRunsAgain
