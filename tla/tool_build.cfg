CONSTANTS
  Scripts = {s1, s2}
  Missing = Missing
  Torn = Torn
  MaxFaults = 2
  MaxKills = 1
SPECIFICATION Spec
SYMMETRY SymScripts
INVARIANTS TypeOK StagesInOrder FlagsTellTruth FailedStaysOut NeverStuck
CHECK_DEADLOCK FALSE
