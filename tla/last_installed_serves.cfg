CONSTANTS
  n1 = n1
  g1 = g1
  g2 = g2
  b1 = b1
  b2 = b2
  V1 = v1
  Torn = Torn
  None = None
  Missing = Missing
  Names = {n1, g1}
  Versions = {v1, v2}
  Builtin = {n1}
  Builds = {b1}
  NameOf <- OnlyBuild
  Scripts = {s1}
  MaxFaults = 0
  MaxKills = 0
SPECIFICATION Spec
INVARIANT LastInstalledServes
