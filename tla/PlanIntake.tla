------------------------------- MODULE PlanIntake -------------------------------
(***************************************************************************)
(* How a plan gets in: POST /plans/propose with a structured plan, and     *)
(* POST /plans/from-message, where the advisory router chooses an agent    *)
(* and the plan builder a plan that then takes propose's way.  A handler   *)
(* is suspended at the router's model call and while a worker thread saves *)
(* the plan.  PlanLifecycle has the store's files, locks and the decisions *)
(* on a plan, WorkspaceMirror the files of its workspace; here a plan      *)
(* pends or not, and its workspace is active or not.                       *)
(***************************************************************************)
EXTENDS RequestAuth, AuditLog, FiniteSets

CONSTANTS
  PlanIds,      (* plan ids                                                  *)
  Drafts,       (* bound: the plans POST /plans/propose comes with           *)
  Messages,     (* bound: the messages of from-message, as sets of Patterns  *)
  AgentNames,   (* agents a request may name                                 *)
  AgentFiles,   (* AgentFiles[a]: the folder of agent a                      *)
  Tools,        (* tool names plans are made of                              *)
  Destructive,  (* the tools whose name suggests deletion                    *)
  InstalledSets,(* bound: the sets of installed tools the registry may hold  *)
  NoPlan,       (* no plan, no agent, no router answer                       *)
  TornPlan,     (* a pending file whose write was cut short                  *)
  MaxIntakeFaults (* bound: how many workspace and store writes may fail     *)

MaintainerAgent == "project_maintainer_agent"
MediaAgent      == "media_agent"
Supported       == {MaintainerAgent, MediaAgent}

(* What the builder's substring and regular expression tests find in a     *)
(* message; long: the prompt is over the router's token budget; cloud: a   *)
(* cloud marker of policy.py in the text that becomes an argument.         *)
Patterns == {"media_stack", "search", "list", "inspect", "filename", "navidrome",
             "queue", "movie_add", "movie", "series", "long", "cloud"}

Plan == [agent : AgentNames, risk : 0..5, approval : BOOLEAN, tools : SUBSET Tools,
         calls : Nat, max_calls : Nat, cloud : BOOLEAN, allow_cloud : BOOLEAN,
         allow_delete : BOOLEAN]
(* agents/<id>/: whether the folder is there, whether its tools.yaml is a  *)
(* YAML mapping, the enforcement mode and the tools it lists.              *)
AgentFolder == [dir : BOOLEAN, parsed : BOOLEAN, mode : {"strict", "advisory"},
                listed : SUBSET Tools]

ASSUME IntakeAssumption ==
  /\ Supported \subseteq AgentNames /\ NoPlan \notin AgentNames
  /\ {"list_project_files", "search_repo", "inspect_file", "sabnzbd_queue",
      "radarr_add", "radarr_search", "sonarr_search"} \subseteq Tools
  /\ AgentFiles \in [AgentNames -> AgentFolder]
  /\ Drafts \subseteq Plan /\ {NoPlan, TornPlan} \cap Plan = {} /\ NoPlan # TornPlan
  /\ Messages \subseteq SUBSET Patterns
  /\ InstalledSets \subseteq SUBSET Tools
  /\ MaxIntakeFaults \in Nat

VARIABLES
  job,        (* job[r]: stage, plan id, plan, chooser and answer of r       *)
  pending,    (* pending[id]: what is under pending/: a plan, torn or none   *)
  active,     (* the plan ids with an active workspace                       *)
  installed,  (* the names of the installed tools, from the registry         *)
  notes,      (* pending_approvals.jsonl: the plan ids announced, in order   *)
  faults,     (* how many faults may still strike                            *)
  saves       (* history: what was saved, by whom, checked against what      *)

intakeVars == <<job, pending, active, installed, notes, faults, saves>>

(* What the tiny model says; low: below the minimum, which a NaN is not;   *)
(* printable: neither a NaN nor infinite, which json.loads takes and the   *)
(* JSON of an answer refuses.                                              *)
RouterAnswers == [route : {"project_maintenance", "media", "other"},
                  confidence : {"low", "enough"}, printable : BOOLEAN]
JobStages == {"idle", "routing", "saving", "saved", "deciding", "answered"}
Refusals  == {"bad_request", "not_found", "manual_agent_required", "unsupported_agent",
              "missing_capability", "policy_rejected", "transition_locked"}
JobAnswers == Refusals \cup {"none", "pending_approval", "allowed_not_executed",
                             "workspace_error", "internal_error", "decided"}
NoJob == [at |-> "idle", id |-> NoPlan, plan |-> NoPlan, heard |-> NoPlan,
          text |-> {}, against |-> {}, answer |-> "none"]

(* heard: what chose the agent, NoPlan when the request itself did.        *)
Save == [req : Requests, id : PlanIds, plan : Plan,
         heard : RouterAnswers \cup {NoPlan}, against : SUBSET Tools]

IntakeType ==
  /\ job \in [Requests -> [at : JobStages, id : PlanIds \cup {NoPlan},
                           plan : Plan \cup {NoPlan}, text : SUBSET Patterns,
                           against : SUBSET Tools,
                           heard : RouterAnswers \cup {NoPlan}, answer : JobAnswers]]
  /\ pending \in [PlanIds -> Plan \cup {NoPlan, TornPlan}]
  /\ active \subseteq PlanIds /\ installed \subseteq Tools
  /\ notes \in Seq(PlanIds) /\ faults \in Nat /\ saves \subseteq Save
-----------------------------------------------------------------------------
(* get_agent_tool_policy: an unknown agent has no policy; a tools.yaml     *)
(* that is missing or does not parse allows nothing, but only advises.     *)
AgentToolPolicy(a) ==
  LET f == AgentFiles[a]
  IN  [mode    |-> IF ~f.dir THEN "none" ELSE IF f.parsed THEN f.mode ELSE "advisory",
       allowed |-> IF f.dir /\ f.parsed THEN f.listed ELSE {}]

(* plans_propose: only a strict list blocks.                               *)
AgentAllows(plan) ==
  LET p == AgentToolPolicy(plan.agent)
  IN  p.mode # "strict" \/ plan.tools \subseteq p.allowed

(* policy.py's helpers: the risk ladder, what suggests the cloud in a      *)
(* tool's name, its arguments or the plan's text, and deletion.            *)
RiskRefuses(plan)   == plan.risk = 5 \/ (plan.risk >= 3 /\ ~plan.approval)
CloudAllowed(plan)  == plan.allow_cloud \/ ~plan.cloud
DeleteAllowed(plan) == plan.allow_delete \/ plan.tools \cap Destructive = {}

(* Mutant: a tool the registry does not have installed only adds a reason. *)
EvaluatePlanUninstalled(plan, tools) ==
  ~RiskRefuses(plan) /\ plan.calls <= plan.max_calls /\ CloudAllowed(plan) /\ DeleteAllowed(plan)

(* evaluate_plan: a refusal that ends it, then four that add up.           *)
EvaluatePlan(plan, tools) ==
  /\ ~RiskRefuses(plan)
  /\ plan.calls <= plan.max_calls
  /\ CloudAllowed(plan) /\ DeleteAllowed(plan)
  /\ plan.tools \subseteq tools

(* Mutant: the least confident answer is as good as any.                   *)
SelectRouteUnsure(heard) ==
  CASE heard.route = "project_maintenance" -> MaintainerAgent
    [] heard.route = "media" -> MediaAgent
    [] OTHER -> NoPlan

(* select_route, for a prompt within its budget: the agent, or NoPlan for  *)
(* manual_agent_required.                                                  *)
SelectRoute(heard) ==
  IF heard.confidence = "low" THEN NoPlan
  ELSE CASE heard.route = "project_maintenance" -> MaintainerAgent
         [] heard.route = "media" -> MediaAgent
         [] OTHER -> NoPlan

(* The builders: the first test that finds its pattern decides; NoPlan     *)
(* when there is no tool for the message.                                  *)
MaintainerTool(text) ==
  CASE "media_stack" \notin text /\ "search" \in text -> "search_repo"
    [] {"media_stack", "search", "list"} \cap text = {}
         /\ {"inspect", "filename"} \subseteq text -> "inspect_file"
    [] OTHER -> "list_project_files"

MediaTool(text) ==
  IF "navidrome" \in text      THEN NoPlan
  ELSE IF "queue" \in text     THEN "sabnzbd_queue"
  ELSE IF "movie_add" \in text THEN "radarr_add"
  ELSE IF "movie" \in text     THEN "radarr_search"
  ELSE IF "series" \in text    THEN "sonarr_search"
  ELSE NoPlan

BuilderTool(agent, text) ==
  IF agent = MaintainerAgent THEN MaintainerTool(text) ELSE MediaTool(text)

(* The tools whose arguments repeat text of the message.                   *)
Quoting == {"search_repo", "radarr_add", "radarr_search", "sonarr_search"}
BasePlan(agent, tool, text) ==
  [agent |-> agent, risk |-> IF tool = "radarr_add" THEN 2 ELSE 0, approval |-> TRUE,
   tools |-> {tool}, calls |-> 1, max_calls |-> 6, allow_cloud |-> FALSE,
   allow_delete |-> FALSE, cloud |-> "cloud" \in text /\ tool \in Quoting]
-----------------------------------------------------------------------------
AnswerWith(r, answer) == job' = [job EXCEPT ![r] = [NoJob EXCEPT !.at = "answered", !.answer = answer]]
(* Each answer of from-message after the router's repeats its confidence;  *)
(* one that cannot be printed makes a 500 of it.                           *)
Printed(heard, answer) ==
  IF heard # NoPlan /\ ~heard.printable THEN "internal_error" ELSE answer
Strike == faults > 0 /\ faults' = faults - 1

(* plans_propose up to its first suspension: policy, mirror, refusal.  A   *)
(* mirror that fails leaves the active workspace made or not.              *)
ProposeBody(r, id, plan, heard) ==
  /\ \/ /\ ~(EvaluatePlan(plan, installed) /\ AgentAllows(plan))
        /\ AnswerWith(r, Printed(heard, "policy_rejected"))
        /\ active' = active \ {id}
        /\ UNCHANGED faults
     \/ /\ EvaluatePlan(plan, installed) /\ AgentAllows(plan)
        /\ IF plan.approval
           THEN job' = [job EXCEPT ![r] = [NoJob EXCEPT !.at = "saving", !.id = id,
                                           !.plan = plan, !.heard = heard,
                                           !.against = installed]]
           ELSE AnswerWith(r, Printed(heard, "allowed_not_executed"))
        /\ active' = active \cup {id}
        /\ UNCHANGED faults
     \/ /\ Strike
        /\ AnswerWith(r, Printed(heard, "workspace_error"))
        /\ active' \in {active, active \cup {id}}
  /\ UNCHANGED <<pending, installed, notes, saves, auditVars>>

AnswerOnly(r, answer) ==
  /\ AnswerWith(r, answer)
  /\ UNCHANGED <<pending, active, installed, notes, faults, saves, auditVars>>

(* build_plan_from_message, with the registry as it is now, then propose.  *)
Build(r, id, agent, text, heard) ==
  LET tool == BuilderTool(agent, text)
  IN  IF agent \notin Supported THEN AnswerOnly(r, Printed(heard, "unsupported_agent"))
      ELSE IF tool = NoPlan \/ tool \notin installed
           THEN AnswerOnly(r, Printed(heard, "missing_capability"))
      ELSE ProposeBody(r, id, BasePlan(agent, tool, text), heard)

ProposeDraft(r, id, plan) ==
  /\ door[r] = "propose" /\ job[r].at = "idle"
  /\ ProposeBody(r, id, plan, NoPlan)

(* An empty message, an invalid plan id, a body that is no plan, a pending *)
(* file that does not match its digest.                                    *)
RefuseMalformed(r) ==
  /\ door[r] \in {"propose", "from_message", "approve", "reject"} /\ job[r].at = "idle"
  /\ AnswerOnly(r, "bad_request")

(* plans_from_message with an agent named by the request, and without.     *)
FromMessageManual(r, id, agent, text) ==
  /\ door[r] = "from_message" /\ job[r].at = "idle"
  /\ Build(r, id, agent, text, NoPlan)

FromMessageRouted(r, id, text) ==
  /\ door[r] = "from_message" /\ job[r].at = "idle"
  /\ IF "long" \in text THEN AnswerWith(r, "manual_agent_required")
     ELSE job' = [job EXCEPT ![r] = [NoJob EXCEPT !.at = "routing", !.id = id, !.text = text]]
  /\ UNCHANGED <<pending, active, installed, notes, faults, saves, auditVars>>

(* The model cannot be reached, complains of its context, or answers what  *)
(* is no JSON object with a route and a number.                            *)
RouterFails(r) ==
  /\ job[r].at = "routing"
  /\ AnswerOnly(r, "manual_agent_required")

RouterAnswered(r, heard) ==
  /\ job[r].at = "routing"
  /\ IF SelectRoute(heard) = NoPlan
     THEN AnswerOnly(r, Printed(heard, "manual_agent_required"))
     ELSE Build(r, job[r].id, SelectRoute(heard), job[r].text, heard)
-----------------------------------------------------------------------------
(* save_pending_plan in a worker thread, under the plan's transition lock; *)
(* a notice that cannot be written is logged and forgotten.                *)
SaveOf(r) == LET j == job[r]
             IN  [req |-> r, id |-> j.id, plan |-> j.plan, heard |-> j.heard,
                  against |-> j.against]

SavePending(r) ==
  /\ job[r].at = "saving"
  /\ pending' = [pending EXCEPT ![job[r].id] = job[r].plan]
  /\ saves' = saves \cup {SaveOf(r)}
  /\ job' = [job EXCEPT ![r].at = "saved"]
  /\ \/ notes' = Append(notes, job[r].id) /\ UNCHANGED faults
     \/ Strike /\ UNCHANGED notes
  /\ UNCHANGED <<active, installed, auditVars>>

(* Mutant: the file is written before the lock is waited for.              *)
SaveTimesOutWritten(r) ==
  /\ job[r].at = "saving"
  /\ AnswerWith(r, Printed(job[r].heard, "transition_locked"))
  /\ pending' = [pending EXCEPT ![job[r].id] = job[r].plan]
  /\ saves' = saves \cup {SaveOf(r)}
  /\ UNCHANGED <<active, installed, notes, faults, auditVars>>

SaveTimesOut(r) ==
  /\ job[r].at = "saving"
  /\ AnswerOnly(r, Printed(job[r].heard, "transition_locked"))

(* The write in place may have begun: what pended under the id is gone.    *)
SaveFails(r) ==
  /\ job[r].at = "saving"
  /\ Strike
  /\ AnswerWith(r, "internal_error")
  /\ pending' \in {pending, [pending EXCEPT ![job[r].id] = TornPlan]}
  /\ UNCHANGED <<active, installed, notes, saves, auditVars>>

(* Back in the handler: APPROVAL.md of the active workspace, if it is      *)
(* still there, and the answer.                                            *)
FinishPropose(r) ==
  /\ job[r].at = "saved"
  /\ \/ /\ job[r].id \in active
        /\ AnswerWith(r, Printed(job[r].heard, "pending_approval"))
        /\ RingAppend(Entry("plan", r, NoLane))
        /\ UNCHANGED faults
     \/ /\ job[r].id \notin active \/ faults > 0
        /\ AnswerWith(r, Printed(job[r].heard, "workspace_error"))
        /\ faults' = IF job[r].id \in active THEN faults - 1 ELSE faults
        /\ UNCHANGED auditVars
  /\ UNCHANGED <<pending, active, installed, notes, saves>>

(* plans_approve and plans_reject: the store in a thread, then the mirror. *)
(* A torn file is no JSON, and stays.                                      *)
Decide(r, id) ==
  /\ door[r] \in {"approve", "reject"} /\ job[r].at = "idle"
  /\ IF pending[id] \in {NoPlan, TornPlan}
     THEN /\ AnswerWith(r, IF pending[id] = NoPlan THEN "not_found" ELSE "bad_request")
          /\ UNCHANGED pending
     ELSE /\ pending' = [pending EXCEPT ![id] = NoPlan]
          /\ job' = [job EXCEPT ![r] = [NoJob EXCEPT !.at = "deciding", !.id = id]]
  /\ UNCHANGED <<active, installed, notes, faults, saves, auditVars>>

(* The lock is not free in time, or the store fails with the plan pending. *)
DecideFails(r) ==
  /\ door[r] \in {"approve", "reject"} /\ job[r].at = "idle"
  /\ \/ AnswerOnly(r, "transition_locked")
     \/ /\ Strike
        /\ AnswerWith(r, "internal_error")
        /\ UNCHANGED <<pending, active, installed, notes, saves, auditVars>>

(* A mirror that fails, and so does not move, has an audit entry of its    *)
(* own; one that is not there is none that fails.                          *)
CloseDecision(r) ==
  /\ job[r].at = "deciding"
  /\ AnswerWith(r, "decided")
  /\ LET decision == Entry("plan", r, NoLane)
     IN  \/ /\ active' = IF door[r] = "reject" THEN active \ {job[r].id} ELSE active
            /\ RingAppend(decision)
            /\ UNCHANGED faults
         \/ /\ job[r].id \in active /\ Strike
            /\ RingAppendAll(<<decision, decision>>)
            /\ UNCHANGED active
  /\ UNCHANGED <<pending, installed, notes, saves>>

(* The four POSTs on the registry, which ToolRegistry models.              *)
RegistryChanges(r) ==
  /\ door[r] \in AdminPosts /\ job[r].at = "idle"
  /\ \/ AnswerOnly(r, "bad_request")
     \/ /\ AnswerWith(r, "decided")
        /\ IF door[r] \in {"tools_install", "tools_reject"}
           THEN installed' \in InstalledSets ELSE UNCHANGED installed
        /\ RingAppend(Entry("lifecycle", r, NoLane))
        /\ UNCHANGED <<pending, active, notes, faults, saves>>

IntakeStep(r) ==
  \/ \E id \in PlanIds :
       \/ \E plan \in Drafts : ProposeDraft(r, id, plan)
       \/ \E text \in Messages : \/ \E a \in AgentNames : FromMessageManual(r, id, a, text)
                                 \/ FromMessageRouted(r, id, text)
       \/ Decide(r, id)
  \/ \E heard \in RouterAnswers : RouterAnswered(r, heard)
  \/ RefuseMalformed(r) \/ RouterFails(r)
  \/ SavePending(r) \/ SaveTimesOut(r) \/ SaveFails(r) \/ FinishPropose(r)
  \/ DecideFails(r) \/ CloseDecision(r) \/ RegistryChanges(r)

IntakeInit ==
  /\ job = [r \in Requests |-> NoJob]
  /\ pending = [id \in PlanIds |-> NoPlan]
  /\ active = {} /\ installed \in InstalledSets
  /\ notes = <<>> /\ faults = MaxIntakeFaults /\ saves = {}
-----------------------------------------------------------------------------
(* Whatever pends for a reviewer passed the policy of policy.py and, where *)
(* the agent's tools.yaml is strict, its list, against the tools that were *)
(* installed when it was checked, not before the router was asked; the     *)
(* store, the registry and other requests moving on meanwhile.             *)
OnlySoundPlansPend ==
  \A id \in PlanIds : pending[id] \notin {NoPlan, TornPlan} =>
    \E s \in saves :
      LET p == s.plan
          f == AgentFiles[p.agent]
      IN  /\ s.id = id /\ p = pending[id] /\ p.approval /\ p.risk < 5
          /\ p.calls <= p.max_calls /\ p.tools \subseteq s.against
          /\ ~p.cloud \/ p.allow_cloud
          /\ p.tools \cap Destructive = {} \/ p.allow_delete
          /\ f.dir /\ f.parsed /\ f.mode = "strict" => p.tools \subseteq f.listed

(* A plan no one chose the agent of is saved only when small_router.py     *)
(* heard one of its candidate routes with a confidence that is not below   *)
(* the minimum, and for the agent of that route, whatever requests with    *)
(* the same plan id and other answers of the model do meanwhile.           *)
RoutedSoundly ==
  \A s \in saves : s.heard # NoPlan =>
    /\ s.heard.confidence # "low"
    /\ <<s.heard.route, s.plan.agent>> \in {<<"project_maintenance", MaintainerAgent>>,
                                            <<"media", MediaAgent>>}

(* The sender of a propose knows whether its plan was saved: a refusal, a  *)
(* lock timeout and a failed save (which may leave a torn file) left no    *)
(* plan of this request under pending/, pending_approval means it was      *)
(* saved.  A workspace_error tells neither: the mirror of plans.py failed  *)
(* before the save, or after it.  Nor does the internal error of a message *)
(* for which the router's confidence cannot be printed: small_router.py    *)
(* took it, and the answer fails when all is done.  And each save was      *)
(* announced once, unless a write failed.                                  *)
AnswerTellsSave ==
  /\ \A r \in Requests :
       LET mine == {s \in saves : s.req = r}
       IN  /\ job[r].answer \in Refusals \cup {"allowed_not_executed"} => mine = {}
           /\ job[r].answer = "internal_error" =>
                \A s \in mine : s.heard # NoPlan /\ ~s.heard.printable
           /\ job[r].answer = "pending_approval" => mine # {}
  /\ faults = MaxIntakeFaults => Len(notes) = Cardinality(saves)
=============================================================================
