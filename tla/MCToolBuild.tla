------------------------------ MODULE MCToolBuild ------------------------------
(* Values for the constants of ToolBuild that TLC checks.                  *)
EXTENDS ToolBuild, TLC

SymScripts == Permutations(Scripts)
=============================================================================
