-------------------------- MODULE MCGeneratedInstall ---------------------------
(* Values for the constants of GeneratedInstall that TLC checks.           *)
EXTENDS GeneratedInstall, TLC

CONSTANTS n1, g1, g2, b1, b2

(* Every build has a tool name of its own.                                 *)
OnlyBuild == b1 :> g1
OwnNames == b1 :> g1 @@ b2 :> g2
(* Two build ids that only differ in characters the name drops.            *)
SameName == b1 :> g1 @@ b2 :> g1

SymScripts == Permutations(Scripts)
=============================================================================
