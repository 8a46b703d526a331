---------------------------- MODULE MCPlanLifecycle ----------------------------
(* Values for the constants of PlanLifecycle that TLC checks.              *)
EXTENDS PlanLifecycle, TLC

CONSTANTS c1, c2, t1

NoFaults == [f \in Faults |-> 0]
(* One fault of every kind but edits.                                      *)
NoEdit     == [f \in Faults |-> IF f = "edit" THEN 0 ELSE 1]
(* Faults of every kind, a crash and a failing rmdir in one behaviour.     *)
EveryFault == [f \in Faults |-> IF f = "lock" THEN 2 ELSE 1]

OneTool     == [c \in Cores |-> <<t1>>]
NoAndOneTool == [c \in Cores |-> IF c = c1 THEN <<t1>> ELSE <<>>]

SymRequests == Permutations(Requests)
=============================================================================
