CONSTANTS
  n1 = n1
  g1 = g1
  g2 = g2
  b1 = b1
  b2 = b2
  V1 = v1
  Torn = Torn
  None = None
  Missing = Missing
  Names = {g1, g2}
  Versions = {v1}
  Builtin = {}
  Builds = {b1, b2}
  NameOf <- OwnNames
  Scripts = {s1, s2}
  MaxFaults = 0
  MaxKills = 0
SPECIFICATION Spec
INVARIANT InstalledStays
