----------------------------- MODULE PlanLifecycle -----------------------------
(***************************************************************************)
(* The plan lifecycle of the gateway: approvals.py (the JSON files under   *)
(* data/plans/ and the per-plan lock directories) driven by the endpoints  *)
(* of routers/plans.py.  Propose, approve and reject run their file work   *)
(* in a worker thread; execute runs on the event loop and yields while a   *)
(* tool is in the sandbox.  So requests interleave at every step, and only *)
(* the lock directory of a plan keeps two of them apart.                   *)
(***************************************************************************)
EXTENDS Naturals, Sequences, FiniteSets

CONSTANTS
  Requests,   (* request slots: each serves one HTTP request at a time       *)
  Plans,      (* plan ids                                                    *)
  Cores,      (* plan contents: what the canonical digest covers             *)
  Tools,      (* names of tools                                              *)
  Builtin,    (* the tools the registry holds as installed after a start     *)
  ToolsOf,    (* the tools a content calls, one per step                     *)
  NoPlan,     (* the plan of an idle request                                 *)
  NoHash,     (* a digest field that is missing from a document              *)
  Absent,     (* a file that does not exist, a request with nothing read     *)
  Torn,       (* a file whose write was cut short: json.loads fails on it    *)
  Budget      (* bound: how often each kind of fault may strike              *)

Folders == {"pending", "approved", "rejected", "executed"}
Ops     == {"propose", "approve", "reject", "execute"}
(* step: a write, an unlink or a tool of a request fails; lock: a lock     *)
(* directory is left behind, by a crash or by an rmdir that fails.         *)
Faults  == {"step", "lock", "edit"}
PCs     == {"idle", "waiting", "checking", "running", "inTool",
            "writing", "unlinking", "releasing"}

(* A stored document: its content and the two server-owned digest fields.  *)
Doc  == [core : Cores, reviewed : Cores \cup {NoHash}, approved : Cores \cup {NoHash}]
File == Doc \cup {Absent, Torn}

ASSUME NullAssumption ==
  /\ NoHash \notin Cores
  /\ NoPlan \notin Plans
  /\ Absent \notin Doc
  /\ Torn \notin Doc
  /\ Absent # Torn

ASSUME ToolAssumption ==
  /\ Builtin \subseteq Tools
  /\ ToolsOf \in [Cores -> Seq(Tools)]

ASSUME BoundAssumption == Budget \in [Faults -> Nat]

VARIABLES
  file,       (* file[p][f]: the JSON of plan p in folder f                  *)
  lock,       (* lock[p]: the directory locks/<p>.lockdir exists             *)
  pc,         (* pc[r]: how far request r has got in its handler             *)
  op,         (* op[r]: the operation r asks for                             *)
  plan,       (* plan[r]: the plan id it asks it for                         *)
  hand,       (* hand[r]: the document the handler holds in memory           *)
  step,       (* step[r]: the steps of the plan an execute has been through  *)
  installed,  (* the tools the in-memory registry lists as installed         *)
  left,       (* how often each fault may still strike                       *)
  proposed,   (* history: the contents the gateway hashed into pending/      *)
  granted,    (* history: the contents an approve wrote into approved/       *)
  unspent,    (* history: approved, and not run since then but by a request  *)
              (* that failed before the approved file was gone               *)
  verdict     (* history: the last decision written for the plan             *)

disk    == <<file, lock>>
job     == <<op, plan, hand, step>>
history == <<proposed, granted, unspent, verdict>>
vars    == <<file, lock, pc, job, installed, left, history>>

(* sha256 over the canonical core: equal exactly for equal contents.       *)
Digest(c) == c

(* The folder an operation takes a plan from and the one it writes it to.  *)
Src(o) == IF o = "execute" THEN "approved" ELSE "pending"
Dst(o) == [propose |-> "pending",  approve |-> "approved",
           reject  |-> "rejected", execute |-> "executed"][o]

Spend(f)    == left[f] > 0 /\ left' = [left EXCEPT ![f] = @ - 1]
(* A step of request r fails.  An execute that fails leaves its plan       *)
(* approved, and with that the approval as good as it was.                 *)
StepFails(r) ==
  /\ Spend("step")
  /\ unspent' = IF op[r] = "execute" THEN [unspent EXCEPT ![plan[r]] = TRUE] ELSE unspent
  /\ UNCHANGED <<proposed, granted, verdict>>
At(r, where) == pc[r] = where
Go(r, where) == pc' = [pc EXCEPT ![r] = where] /\ UNCHANGED job
GoWith(r, where, d) == /\ pc' = [pc EXCEPT ![r] = where]
                       /\ hand' = [hand EXCEPT ![r] = d]
                       /\ UNCHANGED <<op, plan, step>>
Accept(r, o, p, d) == /\ At(r, "idle")
                      /\ pc' = [pc EXCEPT ![r] = "waiting"]
                      /\ op' = [op EXCEPT ![r] = o]
                      /\ plan' = [plan EXCEPT ![r] = p]
                      /\ hand' = [hand EXCEPT ![r] = d]
                      /\ UNCHANGED step
Answer(r) == /\ pc' = [pc EXCEPT ![r] = "idle"]
             /\ op' = [op EXCEPT ![r] = "none"]
             /\ plan' = [plan EXCEPT ![r] = NoPlan]
             /\ hand' = [hand EXCEPT ![r] = Absent]
             /\ step' = [step EXCEPT ![r] = 0]
ToolsLeft(r) == step[r] < Len(ToolsOf[hand[r].core])
NextTool(r)  == ToolsOf[hand[r].core][step[r] + 1]

(* The registry clause of evaluate_plan: every step names an installed     *)
(* tool.  The clauses that look at the content alone are the same at       *)
(* propose and at execute, so every content here is one they allow.        *)
PolicyAllows(c) == \A i \in DOMAIN ToolsOf[c] : ToolsOf[c][i] \in installed

-----------------------------------------------------------------------------
(* A request arrives.                                                      *)

Propose(r, p, c) ==
  /\ PolicyAllows(c)
  /\ Accept(r, "propose", p, [core |-> c, reviewed |-> NoHash, approved |-> NoHash])
  /\ UNCHANGED <<disk, installed, left, history>>

Ask(r, o, p) ==
  /\ o # "propose"
  /\ Accept(r, o, p, Absent)
  /\ UNCHANGED <<disk, installed, left, history>>

-----------------------------------------------------------------------------
(* The lock: mkdir, poll, give up at the deadline, rmdir.                  *)

Lock(r) ==
  /\ At(r, "waiting")
  /\ lock' = [lock EXCEPT ![plan[r]] = TRUE]
  /\ Go(r, IF op[r] = "propose" THEN "writing" ELSE "checking")
  /\ UNCHANGED <<file, installed, left, history>>

(* Mutant: mkdir with exist_ok, so a directory that is there is no bar.    *)
TryLockExistOk(r) == Lock(r)

TryLock(r) == Lock(r) /\ ~lock[plan[r]]

(* Mutant: the timeout path removes the directory it never acquired.       *)
GiveUpUnlocks(r) ==
  /\ At(r, "waiting")
  /\ lock[plan[r]]
  /\ lock' = [lock EXCEPT ![plan[r]] = FALSE]
  /\ Answer(r)
  /\ UNCHANGED <<file, installed, left, history>>

(* Mutant: poll without a deadline.                                        *)
NeverGiveUp(r) == FALSE

GiveUp(r) ==
  /\ At(r, "waiting")
  /\ lock[plan[r]]
  /\ Answer(r)
  /\ UNCHANGED <<disk, installed, left, history>>

Release(r) ==
  /\ At(r, "releasing")
  /\ lock' = [lock EXCEPT ![plan[r]] = FALSE]
  /\ Answer(r)
  /\ UNCHANGED <<file, installed, left, history>>

(* rmdir fails: only logged, the directory stays.                          *)
ReleaseFails(r) ==
  /\ At(r, "releasing")
  /\ Spend("lock")
  /\ Answer(r)
  /\ UNCHANGED <<disk, installed, history>>

-----------------------------------------------------------------------------
(* What a request reads and decides once it holds the lock.                *)

ApproveAdmits(p) ==
  LET d == file[p]["pending"]
  IN  d \in Doc /\ d.reviewed # NoHash /\ Digest(d.core) = d.reviewed

(* Mutant: a torn pending file counts as a plan.                           *)
RejectAdmitsTorn(p) == file[p]["pending"] # Absent

RejectAdmits(p) == file[p]["pending"] \in Doc

AlreadyExecuted(p) == file[p]["executed"] # Absent /\ file[p]["approved"] = Absent

(* Mutant: the content is not compared with its digest.                    *)
ExecuteAdmitsEdited(p) ==
  LET d == file[p]["approved"]
  IN  d \in Doc /\ d.approved # NoHash /\ PolicyAllows(d.core)

ExecuteAdmits(p) ==
  LET d == file[p]["approved"]
  IN  /\ ~AlreadyExecuted(p)
      /\ d \in Doc
      /\ d.approved # NoHash
      /\ Digest(d.core) = d.approved
      /\ PolicyAllows(d.core)

CheckApprove(r) ==
  LET p == plan[r]
      d == file[p]["pending"]
  IN  /\ At(r, "checking") /\ op[r] = "approve"
      /\ ApproveAdmits(p)
      /\ GoWith(r, "writing", [core |-> d.core, reviewed |-> d.reviewed,
                               approved |-> Digest(d.core)])
      /\ UNCHANGED <<disk, installed, left, history>>

CheckReject(r) ==
  /\ At(r, "checking") /\ op[r] = "reject"
  /\ RejectAdmits(plan[r])
  /\ GoWith(r, "writing", file[plan[r]]["pending"])
  /\ UNCHANGED <<disk, installed, left, history>>

StartRun(r) ==
  /\ At(r, "checking") /\ op[r] = "execute"
  /\ ExecuteAdmits(plan[r])
  /\ GoWith(r, "running", file[plan[r]]["approved"])
  /\ unspent' = [unspent EXCEPT ![plan[r]] = FALSE]
  /\ UNCHANGED <<disk, installed, left, proposed, granted, verdict>>

Refused(r) ==
  \/ op[r] = "approve" /\ ~ApproveAdmits(plan[r])
  \/ op[r] = "reject"  /\ ~RejectAdmits(plan[r])
  \/ op[r] = "execute" /\ ~ExecuteAdmits(plan[r])

(* Mutant: a refusal returns without giving the lock back.                 *)
RefuseKeepsLock(r) ==
  /\ At(r, "checking") /\ Refused(r)
  /\ Answer(r)
  /\ UNCHANGED <<disk, installed, left, history>>

Refuse(r) ==
  /\ At(r, "checking") /\ Refused(r)
  /\ Go(r, "releasing")
  /\ UNCHANGED <<disk, installed, left, history>>

-----------------------------------------------------------------------------
(* The steps of a running plan.  A tool that is no longer installed, or    *)
(* that fails, is an error of its step: the loop goes on.                  *)

CallTool(r) ==
  /\ At(r, "running") /\ ToolsLeft(r)
  /\ NextTool(r) \in installed
  /\ Go(r, "inTool")
  /\ UNCHANGED <<disk, installed, left, history>>

MissTool(r) ==
  /\ At(r, "running") /\ ToolsLeft(r)
  /\ NextTool(r) \notin installed
  /\ step' = [step EXCEPT ![r] = @ + 1]
  /\ UNCHANGED <<pc, op, plan, hand, disk, installed, left, history>>

ToolReturns(r) ==
  /\ At(r, "inTool")
  /\ pc' = [pc EXCEPT ![r] = "running"]
  /\ step' = [step EXCEPT ![r] = @ + 1]
  /\ UNCHANGED <<op, plan, hand, disk, installed, left, history>>

(* run_installed_tool itself raises: the handler ends and the lock goes,   *)
(* the approved file stays.                                                *)
ToolRaises(r) ==
  /\ At(r, "inTool")
  /\ StepFails(r)
  /\ Go(r, "releasing")
  /\ UNCHANGED <<disk, installed>>

(* Mutant: the step loop may be left early.                                *)
FinishRunEarly(r) ==
  /\ At(r, "running")
  /\ Go(r, "writing")
  /\ UNCHANGED <<disk, installed, left, history>>

FinishRun(r) ==
  /\ At(r, "running") /\ ~ToolsLeft(r)
  /\ Go(r, "writing")
  /\ UNCHANGED <<disk, installed, left, history>>

-----------------------------------------------------------------------------
(* Write the destination file, then unlink the source file.                *)

(* What is written: save_pending_plan stamps the digest it computes;       *)
(* _mark_executed_body reads the approved file a second time.              *)
Payload(r) ==
  IF op[r] = "execute" THEN file[plan[r]]["approved"]
  ELSE IF op[r] = "propose"
       THEN [core |-> hand[r].core, reviewed |-> Digest(hand[r].core), approved |-> NoHash]
       ELSE hand[r]

Write(r) ==
  LET p == plan[r]
      o == op[r]
      c == hand[r].core
  IN  /\ At(r, "writing")
      /\ file' = [file EXCEPT ![p][Dst(o)] = Payload(r)]
      /\ Go(r, IF o = "propose" THEN "releasing" ELSE "unlinking")
      /\ proposed' = IF o = "propose" THEN [proposed EXCEPT ![p] = @ \cup {c}] ELSE proposed
      /\ granted' = IF o = "approve" THEN [granted EXCEPT ![p] = @ \cup {c}] ELSE granted
      /\ unspent' = IF o = "approve" THEN [unspent EXCEPT ![p] = TRUE] ELSE unspent
      /\ verdict' = IF o \in {"approve", "reject"} THEN [verdict EXCEPT ![p] = o] ELSE verdict
      /\ UNCHANGED <<lock, installed, left>>

(* The write raises, before or after the file was truncated.               *)
WriteBreaks(r, next) ==
  LET p == plan[r]
      f == Dst(op[r])
  IN  /\ At(r, "writing")
      /\ StepFails(r)
      /\ \E after \in {Torn, file[p][f]} : file' = [file EXCEPT ![p][f] = after]
      /\ Go(r, next)
      /\ UNCHANGED <<lock, installed>>

(* Mutant: the failure of a write is swallowed and the source unlinked.    *)
WriteFailsUnlinks(r) == WriteBreaks(r, IF op[r] = "propose" THEN "releasing" ELSE "unlinking")

WriteFails(r) == WriteBreaks(r, "releasing")

Unlink(r) ==
  /\ At(r, "unlinking")
  /\ file' = [file EXCEPT ![plan[r]][Src(op[r])] = Absent]
  /\ Go(r, "releasing")
  /\ UNCHANGED <<lock, installed, left, history>>

UnlinkFails(r) ==
  /\ At(r, "unlinking")
  /\ StepFails(r)
  /\ Go(r, "releasing")
  /\ UNCHANGED <<disk, installed>>

-----------------------------------------------------------------------------
(* The environment.                                                        *)

(* The process dies and is restarted: requests vanish, a file that was     *)
(* being written may be torn, the registry is seeded again.                *)
Crash ==
  /\ Spend("lock")
  /\ \E torn \in SUBSET {r \in Requests : At(r, "writing")} :
       file' = [p \in Plans |-> [f \in Folders |->
                  IF \E r \in torn : plan[r] = p /\ Dst(op[r]) = f
                  THEN Torn ELSE file[p][f]]]
  /\ pc' = [r \in Requests |-> "idle"]
  /\ op' = [r \in Requests |-> "none"]
  /\ plan' = [r \in Requests |-> NoPlan]
  /\ hand' = [r \in Requests |-> Absent]
  /\ step' = [r \in Requests |-> 0]
  /\ installed' = Builtin
  /\ UNCHANGED <<lock, history>>

(* Someone edits the content of a stored plan, not its digests.            *)
Edit(p, f, c) ==
  /\ Spend("edit")
  /\ file[p][f] \in Doc
  /\ file' = [file EXCEPT ![p][f] = [core |-> c, reviewed |-> file[p][f].reviewed,
                                     approved |-> file[p][f].approved]]
  /\ UNCHANGED <<lock, pc, job, installed, history>>

(* /tools/{propose,approve,install} and /tools/.../reject, as they show in *)
(* registry.installed_tools(): a tool appears, a tool is withdrawn.        *)
InstallTool(t) ==
  /\ t \notin installed
  /\ installed' = installed \cup {t}
  /\ UNCHANGED <<disk, pc, job, left, history>>

WithdrawTool(t) ==
  /\ t \in installed
  /\ installed' = installed \ {t}
  /\ UNCHANGED <<disk, pc, job, left, history>>

-----------------------------------------------------------------------------
Init ==
  /\ file = [p \in Plans |-> [f \in Folders |-> Absent]]
  /\ lock = [p \in Plans |-> FALSE]
  /\ pc = [r \in Requests |-> "idle"]
  /\ op = [r \in Requests |-> "none"]
  /\ plan = [r \in Requests |-> NoPlan]
  /\ hand = [r \in Requests |-> Absent]
  /\ step = [r \in Requests |-> 0]
  /\ installed = Builtin
  /\ left = Budget
  /\ proposed = [p \in Plans |-> {}]
  /\ granted = [p \in Plans |-> {}]
  /\ unspent = [p \in Plans |-> FALSE]
  /\ verdict = [p \in Plans |-> "none"]

(* The steps the gateway takes by itself once a request is in.             *)
Proceed(r) ==
  \/ TryLock(r) \/ GiveUp(r)
  \/ CheckApprove(r) \/ CheckReject(r) \/ StartRun(r) \/ Refuse(r)
  \/ CallTool(r) \/ MissTool(r) \/ ToolReturns(r) \/ FinishRun(r)
  \/ Write(r) \/ Unlink(r) \/ Release(r)

Fail(r) == ToolRaises(r) \/ WriteFails(r) \/ UnlinkFails(r) \/ ReleaseFails(r)

Arrive(r) ==
  \/ \E p \in Plans, c \in Cores : Propose(r, p, c)
  \/ \E p \in Plans, o \in Ops : Ask(r, o, p)

Environment ==
  \/ Crash
  \/ \E p \in Plans, f \in {"pending", "approved"}, c \in Cores : Edit(p, f, c)
  \/ \E t \in Tools : InstallTool(t) \/ WithdrawTool(t)

Next ==
  \/ \E r \in Requests : Arrive(r) \/ Proceed(r) \/ Fail(r)
  \/ Environment

Spec == Init /\ [][Next]_vars

(* The event loop and the worker threads run; a tool call ends, at the     *)
(* latest by the sandbox timeout.  Nobody is obliged to send a request.    *)
FairSpec == Spec /\ \A r \in Requests : WF_vars(Proceed(r))
-----------------------------------------------------------------------------
(* Properties.                                                             *)

InCritical(r) == pc[r] \notin {"idle", "waiting"}
Owner(r, p)   == InCritical(r) /\ plan[r] = p
Executing(r)  == /\ op[r] = "execute"
                 /\ pc[r] \in {"running", "inTool", "writing", "unlinking"}
RunBegins(r)  == At(r, "checking") /\ pc'[r] = "running"

(* Every variable stays in its declared range (the type invariant).        *)
TypeOK ==
  /\ file \in [Plans -> [Folders -> File]]
  /\ lock \in [Plans -> BOOLEAN]
  /\ pc \in [Requests -> PCs]
  /\ op \in [Requests -> Ops \cup {"none"}]
  /\ plan \in [Requests -> Plans \cup {NoPlan}]
  /\ hand \in [Requests -> Doc \cup {Absent}]
  /\ step \in [Requests -> Nat]
  /\ \A r \in Requests :
       /\ pc[r] # "idle" => plan[r] \in Plans /\ op[r] \in Ops
       /\ InCritical(r) =>
            /\ At(r, "checking") => op[r] # "propose"
            /\ ~At(r, "checking") /\ ~At(r, "releasing") => hand[r] \in Doc
            /\ pc[r] \in {"running", "inTool"} => op[r] = "execute"
            /\ At(r, "unlinking") => op[r] # "propose"
       /\ At(r, "waiting") /\ op[r] = "propose" => hand[r] \in Doc
  /\ installed \subseteq Tools
  /\ left \in [Faults -> Nat]
  /\ proposed \in [Plans -> SUBSET Cores]
  /\ granted \in [Plans -> SUBSET Cores]
  /\ unspent \in [Plans -> BOOLEAN]
  /\ verdict \in [Plans -> {"none", "approve", "reject"}]

(* At most one request is between mkdir and rmdir of a plan's lock         *)
(* directory, and while one is, the directory exists: no timeout, refusal, *)
(* failure or crash lets a second one in ("concurrent executes cannot      *)
(* duplicate tool runs").                                                  *)
LockExclusive ==
  \A r \in Requests : InCritical(r) =>
    /\ lock[plan[r]]
    /\ \A s \in Requests : Owner(s, plan[r]) => s = r

(* What runs was hashed by a propose and granted by an approve of that     *)
(* very content, even when stored files are edited by hand, writes are     *)
(* torn, and the gateway crashes: the digest gates of approve_plan and     *)
(* plans_execute.                                                          *)
RunsOnlyGranted ==
  \A r \in Requests : Executing(r) =>
    hand[r].core \in proposed[plan[r]] \cap granted[plan[r]]

(* While a plan runs, awaiting its tools, its approved file stays exactly  *)
(* what was checked: no re-propose, approve or reject gets at it, so the   *)
(* second read of _mark_executed_body reads what ran.                      *)
ApprovedStableWhileRunning ==
  \A r \in Requests : Executing(r) => file[plan[r]]["approved"] = hand[r]

(* A stored plan stops being readable in two ways only.  Its file goes     *)
(* after its content lies whole in the folder it moves to; or the request  *)
(* with the plan's lock was overwriting that very file and its write was   *)
(* cut short (write_text is not atomic), and then an approve still has the *)
(* pending plan it came from.  What a re-propose overwrites is not kept.   *)
LostOnlyByOverwrite ==
  [][\A p \in Plans : \A f \in {"pending", "approved"} :
       file[p][f] \in Doc /\ file'[p][f] \notin Doc =>
         \/ /\ file'[p][f] = Absent
            /\ \E g \in Folders \ {f, "pending"} :
                 file'[p][g] \in Doc /\ file'[p][g].core = file[p][f].core
         \/ /\ file'[p][f] = Torn
            /\ \E r \in Requests :
                 /\ At(r, "writing") /\ plan[r] = p /\ Dst(op[r]) = f
                 /\ op[r] = "approve" =>
                      file'[p]["pending"] \in Doc /\ file'[p]["pending"].core = hand[r].core]_vars

(* An executed record is written only by the request that ran that very    *)
(* content, after all its steps.                                           *)
ExecutedRecordIsWhatRan ==
  [][\A p \in Plans :
       (file'[p]["executed"] # file[p]["executed"] /\ file'[p]["executed"] \in Doc) =>
         \E r \in Requests : /\ Executing(r) /\ plan[r] = p /\ ~ToolsLeft(r)
                             /\ file'[p]["executed"].core = hand[r].core]_vars

(* An approval is good for one run: between two runs of a plan a new       *)
(* approve was written, unless the first one failed in its own request, by *)
(* a raising tool, a failing write or unlink, after which plans_execute    *)
(* leaves the plan approved.  A crash in the middle of a run does not open *)
(* the way to a second one: its lock directory stays and blocks the plan.  *)
OneRunPerApproval ==
  [][\A r \in Requests : RunBegins(r) => unspent[plan[r]]]_vars

(* "returns 409 with already_executed if the plan is already under         *)
(* executed/": a plan that has an executed record does not run again.      *)
ExecutedNeverRunsAgain ==
  [][\A r \in Requests : RunBegins(r) => file[plan[r]]["executed"] = Absent]_vars

(* "rejected plan must not execute": a plan does not run when the last     *)
(* decision on it was a rejection.                                         *)
RejectedNeverRuns ==
  [][\A r \in Requests : RunBegins(r) => verdict[plan[r]] # "reject"]_vars

(* Every request is answered: waiting ends in the lock or in a timeout,    *)
(* also when a crash or a failed rmdir left a stale lock directory.        *)
EveryRequestAnswered ==
  \A r \in Requests : ~At(r, "idle") ~> At(r, "idle")

LockLost == left["lock"] < Budget["lock"]

(* Every early return, refusal and failure gives the lock back: only a     *)
(* crash or a failing rmdir leaves a plan locked for good.                 *)
LockEventuallyFree ==
  \A p \in Plans : lock[p] ~> ~lock[p] \/ LockLost
-----------------------------------------------------------------------------
(* Refinement: the approved file of a plan is its grant, except while a    *)
(* request runs it.                                                        *)

Runner(p)   == CHOOSE r \in Requests : Executing(r) /\ plan[r] = p
Runs(p)     == \E r \in Requests : Executing(r) /\ plan[r] = p
ActiveOf(p) == IF Runs(p) THEN hand[Runner(p)].core ELSE NoHash
GrantOf(p)  == IF ~Runs(p) /\ file[p]["approved"] \in Doc
               THEN file[p]["approved"].core ELSE NoHash

Authority == INSTANCE PlanAuthority
               WITH None   <- NoHash,
                    grant  <- [p \in Plans |-> GrantOf(p)],
                    active <- [p \in Plans |-> ActiveOf(p)]

(* As long as nobody edits stored files, the files, locks and requests     *)
(* implement the promise of PlanAuthority under every other fault.         *)
ImplementsAuthority == Authority!Spec
=============================================================================
