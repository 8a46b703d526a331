----------------------------- MODULE PlanAuthority -----------------------------
(***************************************************************************)
(* What the plan lifecycle promises, without files, locks or requests: a   *)
(* plan runs only content that an approval granted, one run at a time, and *)
(* a run takes the grant with it.  A run that ends early (a step raised, a *)
(* file operation failed, the process died) gives the grant back; a run    *)
(* that is recorded as executed has used it up.                            *)
(***************************************************************************)
CONSTANTS Plans, Cores,
  None      (* no content: not a member of Cores                             *)

VARIABLES
  grant,    (* grant[p]: the content plan p may be run with, or None         *)
  active    (* active[p]: the content plan p is running, or None             *)

Init ==
  /\ grant = [p \in Plans |-> None]
  /\ active = [p \in Plans |-> None]

(* One plan's part of a step.                                              *)
Grant(p)  == /\ active[p] = None /\ active'[p] = None
             /\ grant'[p] \in Cores
Lose(p)   == /\ active[p] = None /\ active'[p] = None
             /\ grant'[p] = None
Start(p)  == /\ active[p] = None /\ grant[p] # None
             /\ active'[p] = grant[p]
             /\ grant'[p] = None
Finish(p) == /\ active[p] # None /\ active'[p] = None
             /\ grant'[p] = None
Abort(p)  == /\ active[p] # None /\ active'[p] = None
             /\ grant'[p] = active[p]
Rest(p)   == active'[p] = active[p] /\ grant'[p] = grant[p]

(* A crash of the process ends the runs of all plans in one step.          *)
Next ==
  /\ \A p \in Plans : Grant(p) \/ Lose(p) \/ Start(p) \/ Finish(p) \/ Abort(p) \/ Rest(p)
  /\ DOMAIN grant' = Plans /\ DOMAIN active' = Plans

Spec == Init /\ [][Next]_<<grant, active>>
=============================================================================
