---------------------------- MODULE WorkspaceMirror ----------------------------
(***************************************************************************)
(* The readable evidence of a plan: workspace.py and workspace_mirror.py,  *)
(* as the plan endpoints call them.  A transition of the plan store is one *)
(* step here (PlanLifecycle has its files and locks); the mirror writes    *)
(* follow it in a later step of the event loop, outside the plan's lock    *)
(* except for execute, so requests on one plan mix them in any order.      *)
(***************************************************************************)
EXTENDS Naturals, Sequences, SequencesExt

CONSTANTS
  Requests,     (* request slots                                             *)
  Plans,        (* plan ids, which are the task ids of their workspaces      *)
  Cores,        (* plan contents                                             *)
  Denied,       (* the contents the policy denies                            *)
  Unsupervised, (* the allowed contents that do not require approval         *)
  None,         (* no content, no request                                    *)
  NoDir,        (* a workspace directory that does not exist                 *)
  MaxFaults     (* bound: how many failures and crashes may strike           *)

States  == {"active", "completed", "rejected"}
Stages  == {"saving", "saved", "approved", "rejected", "running", "stepped", "ended"}
Events  == {"started", "step", "completed"}

(* A workspace, as far as the endpoints tell it apart.                     *)
Workspace == [plan     : Cores \cup {None},
              approval : {"", "pending", "approved", "rejected"},
              result   : {"", "note", "executed"},  (* a note: denied, rejected ... *)
              log      : Seq(Events)]

ASSUME ContentAssumption ==
  /\ Denied \subseteq Cores /\ Unsupervised \subseteq Cores \ Denied
  /\ None \notin Cores /\ None \notin Plans /\ NoDir \notin Workspace
  /\ MaxFaults \in Nat

VARIABLES
  pending, approved, executed,  (* the plan store: a content per plan, or None *)
  lock,     (* lock[p]: the lock directory of p is held, or was left behind  *)
  job,      (* job[r]: stage and plan of the request in slot r, with the     *)
            (* content a propose is about to save                            *)
  dir,      (* dir[p][s]: the workspace of p in state s                      *)
  left,     (* how many faults may still strike                              *)
  granted,  (* history: the plans an approve has been written for            *)
  decided,  (* history: how the plan last ended                              *)
  clean     (* history: plan p was used one request at a time, without fault *)

store   == <<pending, approved, executed, lock>>
history == <<granted, decided, clean>>
vars    == <<store, job, dir, left, history>>

Idle == [at |-> "idle", plan |-> None, core |-> None]
At(r, stage)   == job[r].at = stage
Go(r, stage)   == job' = [job EXCEPT ![r].at = stage, ![r].core = None]
Enter(r, stage, p, c) ==
  /\ job[r] = Idle
  /\ job' = [job EXCEPT ![r] = [at |-> stage, plan |-> p, core |-> c]]
Answer(r) == job' = [job EXCEPT ![r] = Idle]
Strike    == left > 0 /\ left' = left - 1
Busy(p)   == \E r \in Requests : job[r].plan = p
Spoil(p)  == clean' = [clean EXCEPT ![p] = FALSE]
(* A request that finds another one on its plan ends the clean history.    *)
Join(p)   == clean' = [clean EXCEPT ![p] = @ /\ ~Busy(p)]
-----------------------------------------------------------------------------
(* workspace.py.  An operation maps the directories of one plan to their   *)
(* next value; it raises when the active directory is not there.           *)

Fresh(c)      == [plan |-> c, approval |-> "", result |-> "", log |-> <<>>]
Exists(d)     == d["active"] # NoDir
Ensure(d, c)  == IF Exists(d) THEN d ELSE [d EXCEPT !["active"] = Fresh(None)]
WritePlan(d, c)     == [d EXCEPT !["active"].plan = c]
WriteApproval(d, a) == [d EXCEPT !["active"].approval = a]
WriteResult(d, t)   == [d EXCEPT !["active"].result = t]
AppendLog(d, e)     == [d EXCEPT !["active"].log = Append(@, e)]

(* move_workspace: remove what is at the destination, then rename.         *)
ClearDestination(d, s) == [d EXCEPT ![s] = NoDir]
Rename(d, s)           == [d EXCEPT ![s] = d["active"], !["active"] = NoDir]

(* A mirror block of a handler: the values dir[p] goes through.  Without   *)
(* an active workspace its first write raises FileNotFoundError, which the *)
(* handlers ignore.                                                        *)
Block(d, values) == IF Exists(d) THEN values ELSE <<d>>

(* Mutant: the workspace is renamed away before the destination is cleared *)
(* of the older one, so the clearing hits what was just moved.             *)
MoveBlockClearsLast(d, s) == <<Rename(d, s), ClearDestination(Rename(d, s), s)>>

MoveBlock(d, s) == <<ClearDestination(d, s), Rename(d, s)>>

(* What plans_propose mirrors before anything is saved: a denied plan is   *)
(* noted and moved away, one that needs no approval is noted.              *)
ProposeBlock(d, c) ==
  LET e == Ensure(d, c)
      v == WritePlan(e, c)
      w == WriteResult(v, "note")
  IN  CASE c \in Denied       -> <<d, e, v, w>> \o MoveBlock(w, "rejected")
        [] c \in Unsupervised -> <<d, e, v, w>>
        [] OTHER              -> <<d, e, v>>

(* Mutant: the rejected workspace stays where it is.                       *)
RejectBlockStays(d) ==
  LET a == WriteApproval(d, "rejected")
  IN  Block(d, <<d, a, WriteResult(a, "note")>>)

RejectBlock(d) ==
  LET a == WriteApproval(d, "rejected")
      w == WriteResult(a, "note")
  IN  Block(d, <<d, a, w>> \o MoveBlock(w, "rejected"))

FinishBlock(d) ==
  LET l == AppendLog(d, "completed")
      w == WriteResult(l, "executed")
  IN  Block(d, <<d, l, w>> \o MoveBlock(w, "completed"))

(* The block runs to its end, or an OSError cuts it short: then only a     *)
(* warning is logged.                                                      *)
Mirror(p, values) ==
  /\ dir' = [dir EXCEPT ![p] = Last(values)]
  /\ UNCHANGED left
MirrorCut(p, values) ==
  /\ Strike
  /\ \E i \in 1..(Len(values) - 1) : dir' = [dir EXCEPT ![p] = values[i]]
-----------------------------------------------------------------------------
(* POST /plans/propose.                                                    *)

(* The policy denies, or no approval is asked for: mirror and answer.      *)
ProposeUnsaved(r, p, c) ==
  /\ job[r] = Idle /\ c \in Denied \cup Unsupervised
  /\ Mirror(p, ProposeBlock(dir[p], c))
  /\ Spoil(p)
  /\ UNCHANGED <<store, job, granted, decided>>

(* Mirror first, then hand the plan to a worker thread to be saved.        *)
Propose(r, p, c) ==
  /\ c \in Cores \ (Denied \cup Unsupervised)
  /\ Enter(r, "saving", p, c)
  /\ Mirror(p, ProposeBlock(dir[p], c))
  /\ IF approved[p] = None THEN Join(p) ELSE Spoil(p)
  /\ UNCHANGED <<store, granted, decided>>

(* The mirror fails: 500, nothing is saved; a denied plan may be half way  *)
(* to rejected/.                                                           *)
ProposeCut(r, p, c) ==
  /\ job[r] = Idle
  /\ MirrorCut(p, ProposeBlock(dir[p], c))
  /\ Spoil(p)
  /\ UNCHANGED <<store, job, granted, decided>>

Save(r) ==
  LET p == job[r].plan
  IN  /\ At(r, "saving") /\ ~lock[p]
      /\ pending' = [pending EXCEPT ![p] = job[r].core]
      /\ Go(r, "saved")
      /\ UNCHANGED <<approved, executed, lock, dir, left, history>>

(* save_pending_plan raises: 500, and the file it overwrites in place is   *)
(* what it was or no longer a plan.                                        *)
SaveRaises(r) ==
  LET p == job[r].plan
  IN  /\ At(r, "saving") /\ ~lock[p] /\ Strike
      /\ \E after \in {pending[p], None} : pending' = [pending EXCEPT ![p] = after]
      /\ Answer(r)
      /\ Spoil(p)
      /\ UNCHANGED <<approved, executed, lock, dir, granted, decided>>

(* The lock times out: 409, but the workspace already shows the plan.      *)
SaveTimesOut(r) ==
  LET p == job[r].plan
  IN  /\ At(r, "saving") /\ lock[p]
      /\ Answer(r)
      /\ Spoil(p)
      /\ UNCHANGED <<store, dir, left, granted, decided>>

(* Without the active directory the write raises and the answer is 500.    *)
MirrorPending(r) ==
  LET p == job[r].plan
      d == dir[p]
  IN  /\ At(r, "saved")
      /\ Mirror(p, Block(d, <<d, WriteApproval(d, "pending")>>))
      /\ Answer(r)
      /\ UNCHANGED <<store, history>>
-----------------------------------------------------------------------------
(* POST /plans/{plan_id}/approve and /reject: the store in a worker        *)
(* thread, the mirror back on the loop.                                    *)

Grant(r, p) ==
  /\ pending[p] # None
  /\ Enter(r, "approved", p, None)
  /\ approved' = [approved EXCEPT ![p] = pending[p]]
  /\ pending' = [pending EXCEPT ![p] = None]
  /\ granted' = granted \cup {p}
  /\ Join(p)
  /\ UNCHANGED <<executed, lock, dir, left, decided>>

Approve(r, p) == ~lock[p] /\ Grant(r, p)

(* approve_plan raises while it overwrites approved/, or with that written *)
(* while it unlinks pending/: 500, and the mirror is not touched.          *)
ApproveRaises(r, p) ==
  /\ job[r] = Idle /\ pending[p] # None /\ ~lock[p] /\ Strike
  /\ \E after \in {approved[p], None, pending[p]} :
       /\ approved' = [approved EXCEPT ![p] = after]
       /\ granted' = IF after = pending[p] THEN granted \cup {p} ELSE granted
  /\ Spoil(p)
  /\ UNCHANGED <<pending, executed, lock, job, dir, decided>>

MirrorApproved(r) ==
  LET p == job[r].plan
      d == dir[p]
  IN  /\ At(r, "approved")
      /\ Mirror(p, Block(d, <<d, WriteApproval(d, "approved")>>))
      /\ Answer(r)
      /\ UNCHANGED <<store, history>>

Reject(r, p) ==
  /\ pending[p] # None /\ ~lock[p]
  /\ Enter(r, "rejected", p, None)
  /\ pending' = [pending EXCEPT ![p] = None]
  /\ decided' = [decided EXCEPT ![p] = "rejected"]
  /\ Join(p)
  /\ UNCHANGED <<approved, executed, lock, dir, left, granted>>

(* reject_plan raises: 500, the plan stays pending.                        *)
RejectRaises(r, p) ==
  /\ job[r] = Idle /\ pending[p] # None /\ ~lock[p] /\ Strike
  /\ Spoil(p)
  /\ UNCHANGED <<store, job, dir, granted, decided>>

MirrorRejected(r) ==
  LET p == job[r].plan
  IN  /\ At(r, "rejected")
      /\ Mirror(p, RejectBlock(dir[p]))
      /\ Answer(r)
      /\ UNCHANGED <<store, history>>
-----------------------------------------------------------------------------
(* POST /plans/{plan_id}/execute: the lock is held from the first check    *)
(* to the last audit entry; the loop is free while the tool runs.          *)

StartBlock(d) == Block(d, <<d, AppendLog(d, "started")>>)
StepBlock(d)  == Block(d, <<d, AppendLog(d, "step")>>)

Begin(r, p) ==
  /\ approved[p] # None
  /\ Enter(r, "running", p, None)
  /\ lock' = [lock EXCEPT ![p] = TRUE]
  /\ UNCHANGED <<pending, approved, executed, granted, decided>>

Run(r, p) == Begin(r, p) /\ Mirror(p, StartBlock(dir[p])) /\ Join(p)

(* Mutant: execute does not take the lock.                                 *)
ExecuteUnlocked(r, p) == Run(r, p)

(* Mutant: a plan that is not under approved/ runs from pending/.          *)
ExecutePending(r, p) ==
  /\ ~lock[p]
  /\ \/ Run(r, p)
     \/ /\ approved[p] = None /\ pending[p] # None
        /\ Enter(r, "running", p, None)
        /\ lock' = [lock EXCEPT ![p] = TRUE]
        /\ approved' = [approved EXCEPT ![p] = pending[p]]
        /\ pending' = [pending EXCEPT ![p] = None]
        /\ Join(p)
        /\ UNCHANGED <<executed, dir, left, granted, decided>>

Execute(r, p) == ~lock[p] /\ Run(r, p)

(* The start is not logged: a warning, and the plan runs all the same.     *)
StartCut(r, p) ==
  ~lock[p] /\ Begin(r, p) /\ MirrorCut(p, StartBlock(dir[p])) /\ Spoil(p)

StepDone(r) ==
  LET p == job[r].plan
  IN  /\ At(r, "running")
      /\ Mirror(p, StepBlock(dir[p]))
      /\ Go(r, "stepped")
      /\ UNCHANGED <<store, history>>

(* The tool call itself raises: the handler ends, the lock goes.           *)
ToolRaises(r) ==
  LET p == job[r].plan
  IN  /\ At(r, "running") /\ Strike
      /\ lock' = [lock EXCEPT ![p] = FALSE]
      /\ Answer(r)
      /\ Spoil(p)
      /\ UNCHANGED <<pending, approved, executed, dir, granted, decided>>

(* _mark_executed_body, then the log line, the result and the move.        *)
Executed(r) ==
  LET p == job[r].plan
  IN  /\ At(r, "stepped")
      /\ executed' = [executed EXCEPT ![p] = approved[p]]
      /\ approved' = [approved EXCEPT ![p] = None]
      /\ decided' = [decided EXCEPT ![p] = "executed"]
      /\ Go(r, "ended")
      /\ UNCHANGED <<pending, lock, granted>>

Finish(r) ==
  LET p == job[r].plan
  IN  Executed(r) /\ Mirror(p, FinishBlock(dir[p])) /\ UNCHANGED clean

(* Mutant: the mirror is finished although the store was not updated.      *)
MarkFailsMirrors(r) ==
  LET p == job[r].plan
  IN  /\ At(r, "stepped") /\ Strike
      /\ lock' = [lock EXCEPT ![p] = FALSE]
      /\ dir' = [dir EXCEPT ![p] = Last(FinishBlock(dir[p]))]
      /\ Answer(r)
      /\ Spoil(p)
      /\ UNCHANGED <<pending, approved, executed, granted, decided>>

(* _mark_executed_body raises: nothing of the end is mirrored.  A record   *)
(* may be there, whole or not: only whether it exists is ever asked.       *)
MarkFails(r) ==
  LET p == job[r].plan
  IN  /\ At(r, "stepped") /\ Strike
      /\ \E after \in {executed[p], approved[p]} : executed' = [executed EXCEPT ![p] = after]
      /\ lock' = [lock EXCEPT ![p] = FALSE]
      /\ Answer(r)
      /\ Spoil(p)
      /\ UNCHANGED <<pending, approved, dir, granted, decided>>

Release(r) ==
  /\ At(r, "ended")
  /\ lock' = [lock EXCEPT ![job[r].plan] = FALSE]
  /\ Answer(r)
  /\ UNCHANGED <<pending, approved, executed, dir, left, history>>
-----------------------------------------------------------------------------
(* Failures of the mirror alone, in the handlers that only warn.           *)
DecisionCut(r) ==
  LET p == job[r].plan
      d == dir[p]
  IN  /\ \/ At(r, "approved") /\ MirrorCut(p, Block(d, <<d, WriteApproval(d, "approved")>>))
         \/ At(r, "saved")    /\ MirrorCut(p, Block(d, <<d, WriteApproval(d, "pending")>>))
         \/ At(r, "rejected") /\ MirrorCut(p, RejectBlock(d))
      /\ Answer(r)
      /\ Spoil(p)
      /\ UNCHANGED <<store, granted, decided>>

FinishCut(r) ==
  LET p == job[r].plan
  IN  Executed(r) /\ MirrorCut(p, FinishBlock(dir[p])) /\ Spoil(p)

StepCut(r) ==
  LET p == job[r].plan
  IN  /\ At(r, "running")
      /\ MirrorCut(p, StepBlock(dir[p]))
      /\ Go(r, "stepped")
      /\ Spoil(p)
      /\ UNCHANGED <<store, granted, decided>>

(* The process dies and is restarted: requests are gone, a lock directory  *)
(* that was held stays.                                                    *)
Crash ==
  /\ Strike
  /\ job' = [r \in Requests |-> Idle]
  /\ clean' = [p \in Plans |-> clean[p] /\ ~Busy(p)]
  /\ UNCHANGED <<store, dir, granted, decided>>
-----------------------------------------------------------------------------
(* GET /workspaces/{state}/{task_id}/compact.  Its pattern doubles every   *)
(* backslash of a raw string, so it only matches a text with a backslash   *)
(* in it, which none of the texts the handlers write has.                  *)
Matches(approval) == FALSE
ApprovalStatus(s, w) ==
  IF Matches(w.approval) THEN w.approval
  ELSE IF s = "active" THEN "pending" ELSE "none"
-----------------------------------------------------------------------------
Init ==
  /\ pending = [p \in Plans |-> None]
  /\ approved = [p \in Plans |-> None]
  /\ executed = [p \in Plans |-> None]
  /\ lock = [p \in Plans |-> FALSE]
  /\ job = [r \in Requests |-> Idle]
  /\ dir = [p \in Plans |-> [s \in States |-> NoDir]]
  /\ left = MaxFaults
  /\ granted = {}
  /\ decided = [p \in Plans |-> "none"]
  /\ clean = [p \in Plans |-> TRUE]

Arrive(r) ==
  \E p \in Plans :
    \/ \E c \in Cores : \/ Propose(r, p, c) \/ ProposeCut(r, p, c)
                        \/ ProposeUnsaved(r, p, c)
    \/ Approve(r, p) \/ Reject(r, p) \/ Execute(r, p)
    \/ ApproveRaises(r, p) \/ RejectRaises(r, p) \/ StartCut(r, p)

Proceed(r) ==
  \/ Save(r) \/ SaveTimesOut(r) \/ MirrorPending(r)
  \/ MirrorApproved(r) \/ MirrorRejected(r)
  \/ StepDone(r) \/ Finish(r) \/ Release(r)

Fail(r) ==
  \/ SaveRaises(r) \/ ToolRaises(r) \/ MarkFails(r)
  \/ DecisionCut(r) \/ StepCut(r) \/ FinishCut(r)

Next == Crash \/ \E r \in Requests : Arrive(r) \/ Proceed(r) \/ Fail(r)

Spec == Init /\ [][Next]_vars
-----------------------------------------------------------------------------
(* Properties.                                                             *)

Running(r) == job[r].at \in {"running", "stepped"}
Runs(p)    == \E r \in Requests : Running(r) /\ job[r].plan = p
Whole == <<"started", "step", "completed">>
Dirs(p) == {dir[p][s] : s \in States} \ {NoDir}

(* Every variable stays in its declared range (the type invariant), and no *)
(* execution log holds more than one run and one more per fault.           *)
TypeOK ==
  /\ \A v \in {pending, approved, executed} : v \in [Plans -> Cores \cup {None}]
  /\ lock \in [Plans -> BOOLEAN]
  /\ \A r \in Requests : job[r] = Idle \/
       /\ job[r].at \in Stages /\ job[r].plan \in Plans
       /\ IF At(r, "saving") THEN job[r].core \in Cores ELSE job[r].core = None
  /\ \A r \in Requests : Running(r) => lock[job[r].plan] /\ approved[job[r].plan] # None
  /\ \A p \in Plans, s \in States : dir[p][s] = NoDir \/ dir[p][s] \in Workspace
  /\ \A p \in Plans, s \in States :
       dir[p][s] # NoDir => Len(dir[p][s].log) <= 3 * (MaxFaults - left + 1)
  /\ left \in 0..MaxFaults
  /\ granted \subseteq Plans
  /\ decided \in [Plans -> {"none", "rejected", "executed"}]
  /\ clean \in [Plans -> BOOLEAN]

(* Evidence never runs ahead of authority: a workspace says approved, or   *)
(* executed, or lies under completed/, only after the plan store says so,  *)
(* whatever interleaves, fails or crashes.                                 *)
EvidenceNeverAhead ==
  \A p \in Plans :
    /\ dir[p]["completed"] # NoDir => executed[p] # None
    /\ \A w \in Dirs(p) :
         /\ w.approval = "approved" => p \in granted
         /\ w.result = "executed" => executed[p] # None
         /\ Contains(w.log, "completed") => executed[p] # None

(* Evidence never vanishes: once a plan has a workspace, some workspace of *)
(* it stays readable, even when the move that replaces an older one fails  *)
(* half way.                                                               *)
EvidenceNeverVanishes ==
  [][\A p \in Plans : Dirs(p) # {} => Dirs(p)' # {}]_dir

(* The mirror can be trusted as long as a plan id is used one request at a *)
(* time, is not proposed again while it is approved, is not also proposed  *)
(* with a content that is denied or needs no approval, and nothing fails:  *)
(* then, between requests, the workspace is where the plan is, shows its   *)
(* content and its decision, and a completed one holds the whole log.      *)
MirrorFaithful ==
  \A p \in Plans : clean[p] /\ ~Busy(p) =>
    LET w == dir[p]["active"]
    IN  /\ (pending[p] = None /\ approved[p] = None) = (w = NoDir)
        /\ pending[p] # None =>
             approved[p] = None /\ w.plan = pending[p] /\ w.approval = "pending"
        /\ approved[p] # None => w.plan = approved[p] /\ w.approval = "approved"
        /\ w # NoDir => w.log = <<>>
        /\ decided[p] = "executed" =>
             /\ dir[p]["completed"].plan = executed[p]
             /\ dir[p]["completed"].log = Whole
        /\ decided[p] = "rejected" => dir[p]["rejected"].approval = "rejected"

(* "Extract approval status from the readable APPROVAL.md mirror": the     *)
(* compact summary of a workspace tells the decision its APPROVAL.md does. *)
SummaryShowsDecision ==
  \A p \in Plans, s \in States : dir[p][s] # NoDir /\ dir[p][s].approval # "" =>
    ApprovalStatus(s, dir[p][s]) = dir[p][s].approval
-----------------------------------------------------------------------------
(* The plan store of this module keeps the same promise as PlanLifecycle.  *)
Authority == INSTANCE PlanAuthority
               WITH grant  <- [p \in Plans |-> IF Runs(p) THEN None ELSE approved[p]],
                    active <- [p \in Plans |-> IF Runs(p) THEN approved[p] ELSE None]

(* The coarse plan store implements the promise the detailed one does.     *)
StoreImplementsAuthority == Authority!Spec
=============================================================================
