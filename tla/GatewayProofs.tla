----------------------------- MODULE GatewayProofs -----------------------------
(***************************************************************************)
(* Proofs about the gateway, for any requests, keys, plans, tools and      *)
(* services, any traffic and any length of the audit ring.                 *)
(***************************************************************************)
EXTENDS Gateway, RepoToolsProofs, FiniteSetTheorems, SequenceTheorems, TLAPS

(* What a step of the gateway is, by the part of the state it may touch.   *)
LEMMA Steps ==
  ASSUME [Next]_gatewayVars
  PROVE  \/ \E r \in Requests : Door(r)
         \/ \E r \in Requests : Ingesting(r)
         \/ \E r \in Requests : Planning(r)
         \/ \E r \in Requests : Executing(r)
         \/ \E r \in Requests : Working(r)
         \/ Editing
         \/ UNCHANGED gatewayVars
  BY DEF Next
-----------------------------------------------------------------------------
(* The door.  A request is behind it only with a key its route admits.     *)
DoorSound ==
  \A r \in Requests : door[r] \in InputPosts \cup Decisions =>
    by[r] # NoKey /\ Verdict(door[r], by[r]) = door[r]
DoorInv == AuthType /\ DoorSound

USE DEF Routes, InputPosts, Decisions, ReadRoutes, AdminPosts

LEMMA InitDoor == Init => DoorInv
  BY KeysAssumption DEF Init, AuthInit, DoorInv, AuthType, DoorSound

LEMMA NextDoor == DoorInv /\ [Next]_gatewayVars => DoorInv'
<1> SUFFICES ASSUME DoorInv, [Next]_gatewayVars PROVE DoorInv'
  OBVIOUS
<1> USE DEF DoorInv, AuthType, DoorSound, Verdict, ClassifyApiKey
<1>1. ASSUME NEW r \in Requests, NEW route \in Routes, NEW p \in Presented, Arrive(r, route, p)
      PROVE  DoorInv'
  <2>1. Verdict(route, p) \in Routes \cup {"401", "403"}
    OBVIOUS
  <2>2. p \in KeyValues \cup {NoKey}
    BY KeysAssumption
  <2>3. AuthType'
    BY <1>1, <2>1, <2>2 DEF Arrive
  <2>4. DoorSound'
    BY <1>1, <2>1, <2>2 DEF Arrive
  <2>5. QED
    BY <2>3, <2>4
<1>2. ASSUME NEW r \in Requests, Serve(r) PROVE DoorInv'
  BY <1>2 DEF Serve
<1>3. CASE UNCHANGED authVars
  BY <1>3 DEF authVars
<1>4. QED
  BY <1>1, <1>2, <1>3, Steps DEF Door, Ingesting, Planning, Executing, Working, Editing, gatewayVars

(* No header value but the master key's brings a plan in and decides on    *)
(* one, however the four keys are configured.                              *)
THEOREM NobodyApprovesOneself == Spec => []NoSelfApproval
<1>1. DoorInv => NoSelfApproval
  BY DEF DoorInv, DoorSound, NoSelfApproval, Verdict, ClassifyApiKey, KeyAllowsRoute, RouteApiRole
<1>2. QED
  BY InitDoor, NextDoor, <1>1, PTL DEF Spec
-----------------------------------------------------------------------------
(* Ingest.  What went to the cloud is past the classifier's answer.        *)
Cleared(j) ==
  /\ j.at \in {"cloud_llm", "answered", "bad_gateway"}
  /\ "CLOUD_LLM" \in j.named
  /\ CloudAllowSensitive \/ TRUE \notin Forwarded(j.env)
CloudInv == IngestType /\ \A r \in sent : Cleared(ing[r])

USE DEF Stages

LEMMA FailureTyped ==
  \A lane \in Lanes \cup {NoLane}, out \in Outcomes : ClassifyFailure(lane, out) \in Reasons
  BY DEF ClassifyFailure, Lanes, Outcomes, Reasons

LEMMA InitCloud == Init => CloudInv
  BY DEF Init, IngestInit, CloudInv, IngestType, Blank, Envelope, Modalities, Outcomes, Reasons

IngestJob == [at : Stages, env : Envelope, named : SUBSET Lanes,
              lane : Lanes \cup {NoLane}, out : Outcomes, fail : Reasons]

LEMMA OneJob ==
  ASSUME CloudInv, NEW r \in Requests, NEW j \in IngestJob,
         ing' = [ing EXCEPT ![r] = j],
         sent' = sent \/ sent' = sent \cup {r},
         r \in sent' => Cleared(j)
  PROVE  CloudInv'
<1>1. IngestType'
  BY DEF CloudInv, IngestType, IngestJob
<1>2. \A x \in sent' : Cleared(ing'[x])
  BY DEF CloudInv, IngestType, IngestJob
<1>3. (\A x \in sent : Cleared(ing[x]))'
  BY <1>2
<1>4. QED
  BY <1>1, <1>3 DEF CloudInv

LEMMA Settled ==
  ASSUME CloudInv, NEW r \in Requests, NEW lane \in Lanes \cup {NoLane},
         NEW out \in Outcomes, NEW named \in SUBSET Lanes, Settle(r, lane, out, named), sent' = sent,
         r \in sent => named = ing[r].named
  PROVE  CloudInv'
<1> DEFINE j == [ing[r] EXCEPT !.at = "answered", !.lane = lane, !.named = named,
                               !.out = out, !.fail = ClassifyFailure(lane, out)]
<1>1. ing[r] \in IngestJob
  BY DEF CloudInv, IngestType, IngestJob
<1>2. ClassifyFailure(lane, out) \in Reasons
  BY FailureTyped
<1>3. /\ j \in IngestJob
      /\ j.at = "answered" /\ j.named = named /\ j.env = ing[r].env
  BY <1>1, <1>2 DEF IngestJob
<1>4. r \in sent => Cleared(j)
  BY <1>3 DEF CloudInv, Cleared
<1>5. ing' = [ing EXCEPT ![r] = j]
  BY DEF Settle
<1> HIDE DEF j
<1>6. QED
  BY <1>3, <1>4, <1>5, OneJob

LEMMA Awaits ==
  ASSUME CloudInv, NEW r \in Requests, NEW lane \in Lanes, NEW named \in SUBSET Lanes,
         NEW stage \in {"local_llm", "cloud_llm"}, Await(r, stage, lane, named),
         \/ sent' = sent /\ r \notin sent
         \/ /\ sent' = sent \cup {r} /\ stage = "cloud_llm" /\ "CLOUD_LLM" \in named
            /\ CloudAllowSensitive \/ ~MessageIsSensitive(ing[r].env)
  PROVE  CloudInv'
<1> DEFINE j == [ing[r] EXCEPT !.at = stage, !.lane = lane, !.named = named]
<1>1. ing[r] \in IngestJob
  BY DEF CloudInv, IngestType, IngestJob
<1>2. /\ j \in IngestJob
      /\ j.at = stage /\ j.named = named /\ j.env = ing[r].env
  BY <1>1 DEF IngestJob
<1>3. ~MessageIsSensitive(ing[r].env) => TRUE \notin Forwarded(ing[r].env)
  BY <1>1 DEF IngestJob, Envelope, Modalities, MessageIsSensitive, Forwarded
<1>4. r \in sent' => Cleared(j)
  BY <1>2, <1>3 DEF Cleared
<1>5. ing' = [ing EXCEPT ![r] = j]
  BY DEF Await
<1> HIDE DEF j
<1>6. QED
  BY <1>2, <1>4, <1>5, OneJob

LEMMA IngestStepCloud ==
  ASSUME CloudInv, NEW r \in Requests, IngestStep(r)
  PROVE  CloudInv'
<1>t. ing[r] \in IngestJob
  BY DEF CloudInv, IngestType, IngestJob
<1>e. ing[r].at \in {"idle", "classifying"} => r \notin sent
  BY DEF CloudInv, Cleared
<1>1. ASSUME NEW env \in Envelopes, Ingest(r, env) PROVE CloudInv'
  <2>1. [Blank EXCEPT !.at = "classifying", !.env = env] \in IngestJob
    BY IngestAssumption DEF Blank, IngestJob, Outcomes, Reasons
  <2>2. [ing[r] EXCEPT !.at = "unprocessable"] \in IngestJob
    BY <1>t DEF IngestJob
  <2>3. QED
    BY <1>1, <1>e, <2>1, <2>2, OneJob DEF Ingest
<1>2. CASE ClassifierFails(r)
  BY <1>2, <1>e, Settled DEF ClassifierFails, Lanes, Outcomes
<1>3. ASSUME NEW named \in Namings, ClassifierAnswers(r, named) PROVE CloudInv'
  <2>1. named \in SUBSET Lanes /\ r \notin sent
    BY <1>3, <1>e, IngestAssumption DEF ClassifierAnswers
  <2>2. PICK lane \in ExtractToken(named) : Dispatch(r, lane, named)
    BY <1>3 DEF ClassifierAnswers
  <2>3. lane \in Lanes /\ (lane = "CLOUD_LLM" => "CLOUD_LLM" \in named)
    BY <2>1, <2>2 DEF ExtractToken, Lanes
  <2>4. CASE lane \in {"LOCAL_TOOLS", "DROP"} /\ Settle(r, lane, "settled", named) /\ UNCHANGED sent
    BY <2>1, <2>3, <2>4, Settled DEF Outcomes
  <2>5. CASE lane = "LOCAL_LLM" /\ Await(r, "local_llm", lane, named) /\ UNCHANGED sent
    BY <2>1, <2>3, <2>5, Awaits
  <2>6. CASE lane = "CLOUD_LLM" /\ CloudRoute(r, named)
    BY <2>1, <2>3, <2>6, Settled, Awaits DEF CloudRoute, Outcomes
  <2>7. QED
    BY <2>2, <2>4, <2>5, <2>6 DEF Dispatch
<1>4. CASE ModelAnswerRaises(r)
  <2> DEFINE j == [ing[r] EXCEPT !.at = "bad_gateway"]
  <2>1. j \in IngestJob /\ j.at = "bad_gateway" /\ j.named = ing[r].named /\ j.env = ing[r].env
    BY <1>t DEF IngestJob
  <2>2. r \in sent => Cleared(j)
    BY <2>1 DEF CloudInv, Cleared
  <2>3. ing' = [ing EXCEPT ![r] = j] /\ sent' = sent
    BY <1>4 DEF ModelAnswerRaises
  <2> HIDE DEF j
  <2>4. QED
    BY <2>1, <2>2, <2>3, OneJob
<1>5. ASSUME NEW out \in Outcomes, LaneAnswers(r, out) PROVE CloudInv'
  BY <1>5, <1>t, Settled DEF LaneAnswers, IngestJob
<1>6. QED
  BY <1>1, <1>2, <1>3, <1>4, <1>5 DEF IngestStep, Outcomes

LEMMA NextCloud == CloudInv /\ [Next]_gatewayVars => CloudInv'
<1> SUFFICES ASSUME CloudInv, [Next]_gatewayVars PROVE CloudInv'
  OBVIOUS
<1>1. CASE UNCHANGED ingestVars
  BY <1>1 DEF ingestVars, CloudInv, IngestType, Cleared
<1>2. QED
  BY <1>1, IngestStepCloud, Steps
  DEF Door, Ingesting, Planning, Executing, Working, Editing, gatewayVars

(* A message goes to the cloud model only when the classifier named that   *)
(* lane for it and, unless it is allowed, when no field of it that is      *)
(* forwarded is sensitive, for every traffic and every classifier output.  *)
THEOREM CloudIsCleared == Spec => []CloudCallsAreCleared
<1>1. CloudInv => CloudCallsAreCleared
  BY DEF CloudInv, Cleared, CloudCallsAreCleared
<1>2. QED
  BY InitCloud, NextCloud, <1>1, PTL DEF Spec
-----------------------------------------------------------------------------
(* The plan intake.  A plan that is checked, saved or pending is sound.    *)
Sound(s) ==
  LET p == s.plan
      f == AgentFiles[p.agent]
  IN  /\ p.approval = TRUE /\ p.risk < 5
      /\ p.calls <= p.max_calls /\ p.tools \subseteq s.against
      /\ p.cloud = FALSE \/ p.allow_cloud = TRUE
      /\ p.tools \cap Destructive = {} \/ p.allow_delete = TRUE
      /\ f.dir /\ f.parsed /\ f.mode = "strict" => p.tools \subseteq f.listed
Routed(s) ==
  s.heard # NoPlan =>
    /\ s.heard.confidence # "low"
    /\ \/ s.heard.route = "project_maintenance" /\ s.plan.agent = MaintainerAgent
       \/ s.heard.route = "media" /\ s.plan.agent = MediaAgent

IntakeJob == [at : JobStages, id : PlanIds \cup {NoPlan}, plan : Plan \cup {NoPlan},
              text : SUBSET Patterns, against : SUBSET Tools,
              heard : RouterAnswers \cup {NoPlan}, answer : JobAnswers]
Pledge(j) == [plan |-> j.plan, heard |-> j.heard, against |-> j.against]
SoundJob(j) ==
  /\ j.at \in {"routing", "saving"} => j.id \in PlanIds
  /\ j.at = "saving" => j.plan \in Plan /\ Sound(Pledge(j)) /\ Routed(Pledge(j))

SoundInv ==
  /\ job \in [Requests -> IntakeJob]
  /\ installed \subseteq Tools
  /\ saves \subseteq Save /\ \A s \in saves : Sound(s) /\ Routed(s)
  /\ \A r \in Requests : SoundJob(job[r])
  /\ pending \in [PlanIds -> Plan \cup {NoPlan, TornPlan}]
  /\ \A id \in PlanIds : pending[id] \notin {NoPlan, TornPlan} =>
       \E s \in saves : s.id = id /\ s.plan = pending[id]

LEMMA NoJobTyped == NoJob \in IntakeJob
  BY DEF NoJob, IntakeJob, JobStages, JobAnswers

LEMMA AnsweredTyped ==
  ASSUME NEW answer \in JobAnswers
  PROVE  [NoJob EXCEPT !.at = "answered", !.answer = answer] \in IntakeJob
  BY DEF NoJob, IntakeJob, JobStages

LEMMA PrintedIs ==
  ASSUME NEW heard, NEW answer
  PROVE  Printed(heard, answer) \in {answer, "internal_error"}
  BY DEF Printed

LEMMA PrintedTyped ==
  /\ \A heard, answer : answer \in JobAnswers => Printed(heard, answer) \in JobAnswers
  /\ Refusals \subseteq JobAnswers
  /\ {"allowed_not_executed", "workspace_error", "internal_error"} \subseteq JobAnswers
  /\ {"policy_rejected", "unsupported_agent", "missing_capability", "manual_agent_required",
      "transition_locked"} \subseteq Refusals
  BY DEF Printed, JobAnswers, Refusals

LEMMA InitSound == Init => SoundInv
  BY NoJobTyped, IntakeAssumption DEF Init, IntakeInit, SoundInv, SoundJob, NoJob

(* A step of one request that leaves the store alone.                      *)
LEMMA OneIntakeJob ==
  ASSUME SoundInv, NEW r \in Requests, NEW j \in IntakeJob, SoundJob(j),
         job' = [job EXCEPT ![r] = j], installed' \subseteq Tools,
         UNCHANGED <<pending, saves>>
  PROVE  SoundInv'
<1>1. job' \in [Requests -> IntakeJob]
  BY DEF SoundInv
<1>2. \A x \in Requests : SoundJob(job'[x])
  BY DEF SoundInv
<1>3. (\A x \in Requests : SoundJob(job[x]))'
  BY <1>2
<1>4. QED
  BY <1>1, <1>3 DEF SoundInv

LEMMA AnswersSound ==
  ASSUME SoundInv, NEW r \in Requests, NEW answer \in JobAnswers, AnswerWith(r, answer),
         installed' \subseteq Tools, UNCHANGED <<pending, saves>>
  PROVE  SoundInv'
<1> DEFINE j == [NoJob EXCEPT !.at = "answered", !.answer = answer]
<1>1. j \in IntakeJob
  BY AnsweredTyped
<1>2. j.at = "answered"
  BY DEF NoJob
<1>3. job' = [job EXCEPT ![r] = j]
  BY DEF AnswerWith
<1> HIDE DEF j
<1>4. QED
  BY <1>1, <1>2, <1>3, OneIntakeJob DEF SoundJob

LEMMA ProposeSound ==
  ASSUME SoundInv, NEW r \in Requests, NEW id \in PlanIds, NEW plan \in Plan,
         NEW heard \in RouterAnswers \cup {NoPlan},
         Routed([plan |-> plan, heard |-> heard, against |-> installed]),
         ProposeBody(r, id, plan, heard)
  PROVE  SoundInv'
<1> DEFINE j == [NoJob EXCEPT !.at = "saving", !.id = id, !.plan = plan, !.heard = heard,
                              !.against = installed]
<1>u. installed' \subseteq Tools /\ UNCHANGED <<pending, saves>>
  BY DEF ProposeBody, SoundInv
<1>1. CASE \E answer \in JobAnswers : AnswerWith(r, answer)
  BY <1>u, <1>1, AnswersSound
<1>2. CASE /\ EvaluatePlan(plan, installed) /\ AgentAllows(plan) /\ plan.approval
           /\ job' = [job EXCEPT ![r] = j]
  <2>1. j \in IntakeJob
    BY DEF NoJob, IntakeJob, JobStages, JobAnswers, SoundInv
  <2>2. /\ j.at = "saving" /\ j.id = id /\ j.plan = plan /\ j.heard = heard
        /\ j.against = installed
    BY DEF NoJob
  <2>3. Sound([plan |-> plan, heard |-> heard, against |-> installed])
    <3>1. /\ plan.risk \in 0..5 /\ plan.approval \in BOOLEAN /\ plan.cloud \in BOOLEAN
          /\ plan.allow_cloud \in BOOLEAN /\ plan.allow_delete \in BOOLEAN
      BY DEF Plan
    <3>2. /\ plan.risk # 5 /\ plan.calls <= plan.max_calls /\ plan.tools \subseteq installed
      BY <1>2 DEF EvaluatePlan, RiskRefuses
    <3>3. /\ plan.approval = TRUE
          /\ plan.cloud = FALSE \/ plan.allow_cloud = TRUE
          /\ plan.tools \cap Destructive = {} \/ plan.allow_delete = TRUE
      BY <1>2, <3>1, Zenon DEF EvaluatePlan, CloudAllowed, DeleteAllowed
    <3>4. ASSUME AgentFiles[plan.agent].dir, AgentFiles[plan.agent].parsed,
                 AgentFiles[plan.agent].mode = "strict"
          PROVE  plan.tools \subseteq AgentFiles[plan.agent].listed
      BY <1>2, <3>4 DEF AgentAllows, AgentToolPolicy
    <3>5. plan.risk < 5
      BY <3>1, <3>2
    <3>6. QED
      BY <3>2, <3>3, <3>4, <3>5 DEF Sound
  <2> HIDE DEF j
  <2>4. SoundJob(j)
    BY <2>2, <2>3 DEF SoundJob, Pledge
  <2>5. QED
    BY <1>u, <1>2, <2>1, <2>4, OneIntakeJob
<1>3. QED
  BY <1>1, <1>2, PrintedTyped DEF ProposeBody

LEMMA BuildSound ==
  ASSUME SoundInv, NEW r \in Requests, NEW id \in PlanIds, NEW agent \in AgentNames,
         NEW text \in SUBSET Patterns, NEW heard \in RouterAnswers \cup {NoPlan},
         heard # NoPlan => /\ heard.confidence # "low"
                           /\ \/ heard.route = "project_maintenance" /\ agent = MaintainerAgent
                              \/ heard.route = "media" /\ agent = MediaAgent,
         Build(r, id, agent, text, heard)
  PROVE  SoundInv'
<1> DEFINE tool == BuilderTool(agent, text)
<1>1. CASE \E answer \in JobAnswers : AnswerOnly(r, answer)
  BY <1>1, AnswersSound DEF AnswerOnly, SoundInv
<1>2. CASE tool \in installed /\ ProposeBody(r, id, BasePlan(agent, tool, text), heard)
  <2>1. tool \in Tools
    BY <1>2 DEF SoundInv
  <2> HIDE DEF tool
  <2>2. ("cloud" \in text /\ tool \in Quoting) \in BOOLEAN
    OBVIOUS
  <2>3. (IF tool = "radarr_add" THEN 2 ELSE 0) \in 0..5
    OBVIOUS
  <2>4. BasePlan(agent, tool, text) \in Plan
    BY <2>1, <2>2, <2>3 DEF BasePlan, Plan
  <2>5. BasePlan(agent, tool, text).agent = agent
    BY DEF BasePlan
  <2>6. Routed([plan |-> BasePlan(agent, tool, text), heard |-> heard, against |-> installed])
    BY <2>5 DEF Routed
  <2>7. QED
    BY <1>2, <2>4, <2>6, ProposeSound
<1>3. QED
  BY <1>1, <1>2, PrintedTyped DEF Build

LEMMA IntakeSound ==
  ASSUME SoundInv, NEW r \in Requests, IntakeStep(r)
  PROVE  SoundInv'
<1> USE IntakeAssumption
<1>t. job[r] \in IntakeJob
  BY DEF SoundInv
<1>1. ASSUME NEW id \in PlanIds, NEW plan \in Drafts, ProposeDraft(r, id, plan) PROVE SoundInv'
  BY <1>1, ProposeSound DEF ProposeDraft, Routed
<1>2. ASSUME NEW id \in PlanIds, NEW text \in Messages, NEW a \in AgentNames,
             FromMessageManual(r, id, a, text)
      PROVE  SoundInv'
  BY <1>2, BuildSound DEF FromMessageManual
<1>3. ASSUME NEW id \in PlanIds, NEW text \in Messages, FromMessageRouted(r, id, text)
      PROVE  SoundInv'
  <2> DEFINE j == [NoJob EXCEPT !.at = "routing", !.id = id, !.text = text]
  <2>1. j \in IntakeJob /\ j.at = "routing" /\ j.id = id
    BY DEF NoJob, IntakeJob, JobStages, JobAnswers
  <2>2. "manual_agent_required" \in JobAnswers
    BY DEF JobAnswers, Refusals
  <2>3. AnswerWith(r, "manual_agent_required") \/ job' = [job EXCEPT ![r] = j]
    BY <1>3 DEF FromMessageRouted
  <2>4. UNCHANGED <<pending, saves>> /\ installed' \subseteq Tools
    BY <1>3 DEF FromMessageRouted, SoundInv
  <2> HIDE DEF j
  <2>5. QED
    BY <2>1, <2>2, <2>3, <2>4, AnswersSound, OneIntakeJob DEF SoundJob
<1>4. ASSUME NEW id \in PlanIds, Decide(r, id) PROVE SoundInv'
  <2>1. CASE pending' = pending
    BY <1>4, <2>1, AnswersSound DEF Decide, JobAnswers, Refusals, SoundInv
  <2>2. CASE /\ pending' = [pending EXCEPT ![id] = NoPlan]
             /\ job' = [job EXCEPT ![r] = [NoJob EXCEPT !.at = "deciding", !.id = id]]
    <3> DEFINE j == [NoJob EXCEPT !.at = "deciding", !.id = id]
    <3>1. j \in IntakeJob /\ j.at = "deciding"
      BY DEF NoJob, IntakeJob, JobStages, JobAnswers
    <3>2. job' = [job EXCEPT ![r] = j] /\ saves' = saves /\ installed' = installed
      BY <1>4, <2>2 DEF Decide
    <3> HIDE DEF j
    <3>3. \A x \in Requests : SoundJob(job'[x])
      BY <3>1, <3>2 DEF SoundInv, SoundJob
    <3>4. (\A x \in Requests : SoundJob(job[x]))'
      BY <3>3
    <3>5. QED
      BY <2>2, <3>1, <3>2, <3>4 DEF SoundInv
  <2>3. QED
    BY <1>4, <2>1, <2>2 DEF Decide
<1>5. ASSUME NEW heard \in RouterAnswers, RouterAnswered(r, heard) PROVE SoundInv'
  <2>1. CASE SelectRoute(heard) = NoPlan
    BY <1>5, <2>1, AnswersSound, PrintedTyped DEF RouterAnswered, AnswerOnly, SoundInv
  <2>2. CASE SelectRoute(heard) # NoPlan
    <3>1. /\ heard.confidence # "low"
          /\ \/ heard.route = "project_maintenance" /\ SelectRoute(heard) = MaintainerAgent
             \/ heard.route = "media" /\ SelectRoute(heard) = MediaAgent
      BY <2>2 DEF SelectRoute
    <3>2. SelectRoute(heard) \in AgentNames
      BY <3>1 DEF Supported
    <3>3. job[r].id \in PlanIds /\ job[r].text \in SUBSET Patterns
      BY <1>5, <1>t DEF RouterAnswered, IntakeJob, SoundInv, SoundJob
    <3>4. QED
      BY <1>5, <2>2, <3>1, <3>2, <3>3, BuildSound DEF RouterAnswered
  <2>3. QED
    BY <2>1, <2>2
<1>6. ASSUME NEW answer \in JobAnswers, AnswerWith(r, answer), installed' \subseteq Tools,
             UNCHANGED <<pending, saves>>
      PROVE  SoundInv'
  BY <1>6, AnswersSound
<1>7. CASE RefuseMalformed(r) \/ RouterFails(r) \/ SaveTimesOut(r)
  BY <1>6, <1>7, PrintedTyped
  DEF RefuseMalformed, RouterFails, SaveTimesOut, AnswerOnly, JobAnswers, Refusals, SoundInv
<1>8. CASE SaveFails(r)
  <2>1. /\ AnswerWith(r, "internal_error") /\ installed' = installed /\ saves' = saves
        /\ pending' = pending \/ pending' = [pending EXCEPT ![job[r].id] = TornPlan]
    BY <1>8 DEF SaveFails
  <2>2. CASE pending' = pending
    BY <1>6, <2>1, <2>2 DEF JobAnswers, SoundInv
  <2>3. CASE pending' = [pending EXCEPT ![job[r].id] = TornPlan]
    <3> DEFINE j == [NoJob EXCEPT !.at = "answered", !.answer = "internal_error"]
    <3>1. j \in IntakeJob
      BY AnsweredTyped DEF JobAnswers
    <3>2. j.at = "answered" /\ job' = [job EXCEPT ![r] = j]
      BY <2>1 DEF NoJob, AnswerWith
    <3> HIDE DEF j
    <3>3. \A x \in Requests : SoundJob(job'[x])
      BY <3>2 DEF SoundInv, SoundJob
    <3>4. (\A x \in Requests : SoundJob(job[x]))'
      BY <3>3
    <3>5. \A id \in PlanIds : pending'[id] \notin {NoPlan, TornPlan} => pending'[id] = pending[id]
      BY <2>3 DEF SoundInv
    <3>6. QED
      BY <2>1, <2>3, <3>1, <3>2, <3>4, <3>5 DEF SoundInv
  <2>4. QED
    BY <2>1, <2>2, <2>3
<1>9. CASE FinishPropose(r) \/ DecideFails(r) \/ CloseDecision(r) \/ RegistryChanges(r)
  BY <1>6, <1>9, PrintedTyped
  DEF FinishPropose, DecideFails, CloseDecision, RegistryChanges, AnswerOnly, JobAnswers, Refusals, SoundInv
<1>10. CASE SavePending(r)
  <2> DEFINE j == [job[r] EXCEPT !.at = "saved"]
  <2>1. j \in IntakeJob /\ j.at = "saved"
    BY <1>t DEF IntakeJob, JobStages
  <2>2. job' = [job EXCEPT ![r] = j]
    BY <1>10 DEF SavePending
  <2> HIDE DEF j
  <2>3. \A x \in Requests : SoundJob(job'[x])
    BY <2>1, <2>2 DEF SoundInv, SoundJob
  <2>4. (\A x \in Requests : SoundJob(job[x]))'
    BY <2>3
  <2>5. SoundJob(job[r])
    BY DEF SoundInv
  <2>6. Sound(SaveOf(r)) /\ Routed(SaveOf(r))
    BY <1>10, <2>5 DEF SavePending, SoundJob, Pledge, SaveOf, Sound, Routed
  <2>s. SaveOf(r) \in Save
    BY <1>10, <1>t, <2>5 DEF SavePending, SoundJob, SaveOf, Save, IntakeJob
  <2>7. /\ saves' = saves \cup {SaveOf(r)} /\ installed' = installed
        /\ pending' = [pending EXCEPT ![job[r].id] = job[r].plan]
        /\ SaveOf(r).id = job[r].id /\ SaveOf(r).plan = job[r].plan
        /\ job[r].plan \in Plan \cup {NoPlan}
    BY <1>10, <1>t DEF SavePending, SaveOf, IntakeJob
  <2>8. saves' \subseteq Save /\ \A s \in saves' : Sound(s) /\ Routed(s)
    BY <2>s, <2>6, <2>7 DEF SoundInv
  <2>9. \A id \in PlanIds : pending'[id] \notin {NoPlan, TornPlan} =>
          \E s \in saves' : s.id = id /\ s.plan = pending'[id]
    BY <2>7 DEF SoundInv
  <2>10. QED
    BY <2>1, <2>2, <2>4, <2>7, <2>8, <2>9 DEF SoundInv
<1>11. QED
  BY <1>1, <1>2, <1>3, <1>4, <1>5, <1>7, <1>8, <1>9, <1>10 DEF IntakeStep

LEMMA NextSound == SoundInv /\ [Next]_gatewayVars => SoundInv'
<1> SUFFICES ASSUME SoundInv, [Next]_gatewayVars PROVE SoundInv'
  OBVIOUS
<1>1. CASE UNCHANGED intakeVars
  BY <1>1 DEF intakeVars, SoundInv
<1>2. QED
  BY <1>1, IntakeSound, Steps
  DEF Door, Ingesting, Planning, Executing, Working, Editing, gatewayVars

(* What pends for a reviewer passed policy and agent list as a whole, for  *)
(* every plan, registry and interleaving of the requests.                  *)
THEOREM PendingIsSound == Spec => []OnlySoundPlansPend
<1>1. ASSUME SoundInv PROVE OnlySoundPlansPend
  <2> SUFFICES ASSUME NEW id \in PlanIds, pending[id] \notin {NoPlan, TornPlan}
               PROVE  \E s \in saves : s.id = id /\ s.plan = pending[id] /\ Sound(s)
    BY Zenon DEF OnlySoundPlansPend, Sound
  <2>1. QED
    BY <1>1 DEF SoundInv
<1>2. QED
  BY InitSound, NextSound, <1>1, PTL DEF Spec

(* Without a confident answer of the router for its agent no plan of a     *)
(* message whose sender named no agent is saved.                           *)
THEOREM RouterIsHeard == Spec => []RoutedSoundly
<1>1. SoundInv => RoutedSoundly
  BY DEF SoundInv, Routed, RoutedSoundly
<1>2. QED
  BY InitSound, NextSound, <1>1, PTL DEF Spec
-----------------------------------------------------------------------------
(* What a sender is told of its save.                                      *)
Saved(r) == \E s \in saves : s.req = r
Told(r) ==
  LET j == job[r]
  IN  /\ Saved(r) => j.at \in {"saved", "answered"}
      /\ Saved(r) /\ j.at = "answered" =>
           j.answer \in {"pending_approval", "workspace_error", "internal_error"}
      /\ j.at = "saved" => \A s \in saves : s.req = r => s.heard = j.heard
      /\ j.answer = "internal_error" =>
           \A s \in saves : s.req = r => s.heard # NoPlan /\ ~s.heard.printable
      /\ j.at # "answered" => j.answer = "none"
      /\ j.at = "saved" \/ j.answer = "pending_approval" => Saved(r)
Announced ==
  /\ MaxIntakeFaults \in Nat /\ faults \in Nat /\ faults <= MaxIntakeFaults
  /\ IsFiniteSet(saves) /\ notes \in Seq(PlanIds)
  /\ faults = MaxIntakeFaults => Len(notes) = Cardinality(saves)
TellInv == SoundInv /\ Announced /\ \A r \in Requests : Told(r)

LEMMA InitTell == Init => TellInv
<1> SUFFICES ASSUME Init PROVE TellInv
  OBVIOUS
<1>1. Announced
  BY IntakeAssumption, FS_EmptySet DEF Init, IntakeInit, Announced
<1>2. \A r \in Requests : Told(r)
  BY DEF Init, IntakeInit, Told, Saved, NoJob
<1>3. QED
  BY <1>1, <1>2, InitSound DEF TellInv

(* A step of one request that saves nothing.                               *)
LEMMA OneTold ==
  ASSUME TellInv, NEW r \in Requests, NEW j,
         job' = [job EXCEPT ![r] = j], saves' = saves, Told(r)'
  PROVE  \A x \in Requests : Told(x)'
  BY DEF TellInv, SoundInv, Told, Saved

LEMMA AnswersTold ==
  ASSUME TellInv, NEW r \in Requests, NEW answer, AnswerWith(r, answer),
         job[r].at \in {"idle", "routing", "saving", "deciding"},
         answer # "pending_approval", saves' = saves
  PROVE  \A x \in Requests : Told(x)'
<1> DEFINE j == [NoJob EXCEPT !.at = "answered", !.answer = answer]
<1>1. j.at = "answered" /\ j.answer = answer
  BY DEF NoJob
<1>2. job' = [job EXCEPT ![r] = j]
  BY DEF AnswerWith
<1> HIDE DEF j
<1>3. ~Saved(r)
  BY DEF TellInv, Told
<1>4. Told(r)'
  BY <1>1, <1>2, <1>3 DEF TellInv, SoundInv, Told, Saved
<1>5. QED
  BY <1>2, <1>4, OneTold

LEMMA MovesOnTold ==
  ASSUME TellInv, NEW r \in Requests, NEW j, job' = [job EXCEPT ![r] = j],
         job[r].at \in {"idle", "routing"}, j.at \in {"routing", "saving", "deciding"},
         j.answer = "none", saves' = saves
  PROVE  \A x \in Requests : Told(x)'
<1>1. ~Saved(r)
  BY DEF TellInv, Told
<1>2. Told(r)'
  BY <1>1 DEF TellInv, SoundInv, Told, Saved
<1>3. QED
  BY <1>2, OneTold

LEMMA ProposeTold ==
  ASSUME TellInv, NEW r \in Requests, NEW id, NEW plan, NEW heard,
         job[r].at \in {"idle", "routing"}, ProposeBody(r, id, plan, heard)
  PROVE  \A x \in Requests : Told(x)'
<1> DEFINE j == [NoJob EXCEPT !.at = "saving", !.id = id, !.plan = plan, !.heard = heard,
                              !.against = installed]
<1>1. saves' = saves
  BY DEF ProposeBody
<1>2. CASE \E answer \in {"policy_rejected", "allowed_not_executed", "workspace_error",
                          "internal_error"} : AnswerWith(r, answer)
  BY <1>1, <1>2, AnswersTold
<1>3. CASE job' = [job EXCEPT ![r] = j]
  <2>1. j.at = "saving" /\ j.answer = "none"
    BY DEF NoJob
  <2> HIDE DEF j
  <2>2. QED
    BY <1>1, <1>3, <2>1, MovesOnTold
<1>4. QED
  BY <1>2, <1>3, PrintedIs DEF ProposeBody

LEMMA BuildTold ==
  ASSUME TellInv, NEW r \in Requests, NEW id, NEW agent, NEW text, NEW heard,
         job[r].at \in {"idle", "routing"}, Build(r, id, agent, text, heard)
  PROVE  \A x \in Requests : Told(x)'
  BY AnswersTold, ProposeTold, PrintedIs DEF Build, AnswerOnly

LEMMA IntakeTold ==
  ASSUME TellInv, NEW r \in Requests, IntakeStep(r)
  PROVE  \A x \in Requests : Told(x)'
<1>1. ASSUME NEW id \in PlanIds, NEW plan \in Drafts, ProposeDraft(r, id, plan)
      PROVE  \A x \in Requests : Told(x)'
  BY <1>1, ProposeTold DEF ProposeDraft
<1>2. ASSUME NEW id \in PlanIds, NEW text \in Messages, NEW a \in AgentNames,
             FromMessageManual(r, id, a, text)
      PROVE  \A x \in Requests : Told(x)'
  BY <1>2, BuildTold DEF FromMessageManual
<1>3. ASSUME NEW id \in PlanIds, NEW text \in Messages, FromMessageRouted(r, id, text)
      PROVE  \A x \in Requests : Told(x)'
  <2> DEFINE j == [NoJob EXCEPT !.at = "routing", !.id = id, !.text = text]
  <2>1. j.at = "routing" /\ j.answer = "none"
    BY DEF NoJob
  <2>2. AnswerWith(r, "manual_agent_required") \/ job' = [job EXCEPT ![r] = j]
    BY <1>3 DEF FromMessageRouted
  <2>3. saves' = saves /\ job[r].at = "idle"
    BY <1>3 DEF FromMessageRouted
  <2> HIDE DEF j
  <2>4. QED
    BY <2>1, <2>2, <2>3, AnswersTold, MovesOnTold
<1>4. ASSUME NEW id \in PlanIds, Decide(r, id) PROVE \A x \in Requests : Told(x)'
  <2> DEFINE j == [NoJob EXCEPT !.at = "deciding", !.id = id]
  <2>1. j.at = "deciding" /\ j.answer = "none"
    BY DEF NoJob
  <2>2. \/ \E answer \in {"not_found", "bad_request"} : AnswerWith(r, answer)
        \/ job' = [job EXCEPT ![r] = j]
    BY <1>4 DEF Decide
  <2>3. saves' = saves /\ job[r].at = "idle"
    BY <1>4 DEF Decide
  <2> HIDE DEF j
  <2>4. QED
    BY <2>1, <2>2, <2>3, AnswersTold, MovesOnTold
<1>5. ASSUME NEW heard \in RouterAnswers, RouterAnswered(r, heard)
      PROVE  \A x \in Requests : Told(x)'
  BY <1>5, AnswersTold, BuildTold, PrintedIs DEF RouterAnswered, AnswerOnly
<1>6. CASE RefuseMalformed(r) \/ RouterFails(r) \/ SaveTimesOut(r)
  BY <1>6, AnswersTold, PrintedIs DEF RefuseMalformed, RouterFails, SaveTimesOut, AnswerOnly
<1>7. CASE SaveFails(r) \/ DecideFails(r) \/ CloseDecision(r) \/ RegistryChanges(r)
  BY <1>7, AnswersTold DEF SaveFails, DecideFails, CloseDecision, RegistryChanges, AnswerOnly
<1>8. CASE SavePending(r)
  <2>1. job' = [job EXCEPT ![r].at = "saved"] /\ saves' = saves \cup {SaveOf(r)} /\ SaveOf(r).req = r
    BY <1>8 DEF SavePending, SaveOf
  <2>2. job[r].answer = "none" /\ ~Saved(r) /\ SaveOf(r).heard = job[r].heard
    BY <1>8 DEF SavePending, SaveOf, TellInv, Told
  <2>3. QED
    BY <2>1, <2>2 DEF TellInv, SoundInv, IntakeJob, Told, Saved
<1>9. CASE FinishPropose(r)
  <2> DEFINE j(answer) == [NoJob EXCEPT !.at = "answered", !.answer = answer]
  <2>1. PICK answer \in {"pending_approval", "workspace_error", "internal_error"} :
          /\ job' = [job EXCEPT ![r] = j(answer)]
          /\ answer = "internal_error" => job[r].heard # NoPlan /\ ~job[r].heard.printable
    BY <1>9 DEF FinishPropose, AnswerWith, Printed
  <2>2. j(answer).at = "answered" /\ j(answer).answer = answer
    BY DEF NoJob
  <2> HIDE DEF j
  <2>3. saves' = saves /\ Saved(r)
    BY <1>9 DEF FinishPropose, TellInv, Told
  <2>4. job'[r] = j(answer)
    BY <2>1 DEF TellInv, SoundInv
  <2>5. \A s \in saves : s.req = r => s.heard = job[r].heard
    BY <1>9 DEF FinishPropose, TellInv, Told
  <2>6. Told(r)'
    BY <2>1, <2>2, <2>3, <2>4, <2>5 DEF Told, Saved
  <2>7. QED
    BY <2>1, <2>3, <2>6, OneTold
<1>10. QED
  BY <1>1, <1>2, <1>3, <1>4, <1>5, <1>6, <1>7, <1>8, <1>9 DEF IntakeStep

LEMMA IntakeAnnounced ==
  ASSUME TellInv, NEW r \in Requests, IntakeStep(r)
  PROVE  Announced'
<1> USE DEF TellInv, Announced
<1>1. CASE SavePending(r)
  <2>1. SaveOf(r) \notin saves
    BY <1>1 DEF SavePending, SaveOf, Told, Saved
  <2>2. saves' = saves \cup {SaveOf(r)} /\ job[r].id \in PlanIds
    BY <1>1 DEF SavePending, SoundInv, SoundJob
  <2>3. IsFiniteSet(saves') /\ Cardinality(saves') = Cardinality(saves) + 1
    BY <2>1, <2>2, FS_AddElement
  <2>4. CASE notes' = Append(notes, job[r].id) /\ faults' = faults
    BY <2>2, <2>3, <2>4
  <2>5. CASE faults > 0 /\ faults' = faults - 1 /\ notes' = notes
    BY <2>3, <2>5
  <2>6. QED
    BY <1>1, <2>4, <2>5 DEF SavePending, Strike
<1>2. CASE saves' = saves /\ notes' = notes /\ (faults' = faults \/ Strike)
  BY <1>2 DEF Strike
<1>3. CASE FinishPropose(r)
  BY <1>3, <1>2 DEF FinishPropose, Strike
<1>4. ASSUME NEW id, NEW agent, NEW text, NEW heard, Build(r, id, agent, text, heard)
      PROVE  Announced'
  BY <1>2, <1>4 DEF Build, ProposeBody, AnswerOnly
<1>5. ASSUME NEW id \in PlanIds, NEW plan \in Drafts, ProposeDraft(r, id, plan) PROVE Announced'
  BY <1>2, <1>5 DEF ProposeDraft, ProposeBody
<1>6. ASSUME NEW id \in PlanIds, NEW text \in Messages,
             \/ \E a \in AgentNames : FromMessageManual(r, id, a, text)
             \/ FromMessageRouted(r, id, text)
      PROVE  Announced'
  BY <1>2, <1>4, <1>6 DEF FromMessageManual, FromMessageRouted
<1>7. ASSUME NEW heard \in RouterAnswers, RouterAnswered(r, heard) PROVE Announced'
  BY <1>2, <1>4, <1>7 DEF RouterAnswered, AnswerOnly
<1>8. CASE RefuseMalformed(r) \/ RouterFails(r) \/ SaveTimesOut(r) \/ SaveFails(r)
  BY <1>2, <1>8 DEF RefuseMalformed, RouterFails, SaveTimesOut, SaveFails, AnswerOnly
<1>9. CASE DecideFails(r) \/ CloseDecision(r) \/ RegistryChanges(r)
            \/ \E id \in PlanIds : Decide(r, id)
  BY <1>2, <1>9 DEF DecideFails, CloseDecision, RegistryChanges, Decide, AnswerOnly
<1>10. QED
  BY <1>1, <1>3, <1>5, <1>6, <1>7, <1>8, <1>9 DEF IntakeStep

LEMMA NextTell == TellInv /\ [Next]_gatewayVars => TellInv'
<1> SUFFICES ASSUME TellInv, [Next]_gatewayVars PROVE TellInv'
  OBVIOUS
<1>1. SoundInv'
  BY NextSound DEF TellInv
<1>2. CASE UNCHANGED intakeVars
  BY <1>1, <1>2 DEF intakeVars, TellInv, Announced, Told, Saved
<1>3. ASSUME NEW r \in Requests, IntakeStep(r) PROVE TellInv'
  <2>1. (\A x \in Requests : Told(x))'
    BY <1>3, IntakeTold
  <2>2. QED
    BY <1>1, <1>3, <2>1, IntakeAnnounced DEF TellInv
<1>4. QED
  BY <1>2, <1>3, Steps
  DEF Door, Ingesting, Planning, Executing, Working, Editing, gatewayVars

(* A sender knows whether its plan was saved, except after a workspace     *)
(* error and after a confidence the answer cannot print; and without       *)
(* faults each save has its notification.                                  *)
THEOREM SenderKnowsOfSave == Spec => []AnswerTellsSave
<1>1. ASSUME TellInv PROVE AnswerTellsSave
  <2>1. ASSUME NEW r \in Requests
        PROVE  /\ job[r].answer \in Refusals \cup {"allowed_not_executed"} => ~Saved(r)
               /\ job[r].answer = "internal_error" =>
                    \A s \in saves : s.req = r => s.heard # NoPlan /\ ~s.heard.printable
               /\ job[r].answer = "pending_approval" => Saved(r)
    BY <1>1 DEF TellInv, Told, Refusals
  <2>2. QED
    BY <1>1, <2>1 DEF AnswerTellsSave, TellInv, Announced, Saved
<1>2. QED
  BY InitTell, NextTell, <1>1, PTL DEF Spec
-----------------------------------------------------------------------------
(* The tool call.  What a call, its worker, its action in flight and its   *)
(* being acted on may be together.                                         *)
Result     == [success : BOOLEAN, in_worker : BOOLEAN, timeout : BOOLEAN]
CallRec    == [at : {"idle", "running", "draining", "answered", "raised"},
               what : Calls \cup {NoArgs}, result : Result]
WorkerRec  == [at : Live \cup {"none", "exited", "crashed", "killed"},
               env : {GatewayUrl, [s \in Services |-> NoUrl]},
               cfg : Address \cup {NoUrl}, ok : BOOLEAN]
Flights    == {"none", "sent", "done"}

Good(c, w, f, did) ==
  /\ c.at = "idle" => w.at = "none" /\ f = "none" /\ ~did
  /\ c.at \in {"idle", "running", "draining"} => c.result = NoResult
  /\ c.at \in {"draining", "answered", "raised"} => w.at \notin Live
  /\ w.at = "killed" => c.at \in {"draining", "answered", "raised"}
  /\ w.at # "none" => c.what.valid = TRUE
  /\ w.at = "acting" => c.what.tool \in Actors
  /\ w.at = "walking" => c.what.tool \notin Actors
  /\ w.at = "getting" => c.what.tool \notin Actors \ Adders
  /\ w.at = "exited" /\ w.ok = TRUE /\ c.what.tool \in Actors => did
  /\ f # "none" => w.at # "none" /\ c.what.tool \in Actors
  /\ f = "done" => did
  /\ did => w.at # "none" /\ c.what.tool \in Actors
  /\ c.result.success = TRUE =>
       c.result.in_worker = TRUE /\ (c.what.tool \in Actors => did)
  /\ c.result.in_worker = TRUE => w.at = "exited" /\ c.result.success = w.ok
  /\ w.at = "killed" /\ c.at = "answered" => c.result.timeout = TRUE

CallInv ==
  /\ call \in [Requests -> CallRec] /\ worker \in [Requests -> WorkerRec]
  /\ flight \in [Requests -> Flights] /\ acted \subseteq Requests
  /\ \A r \in Requests : Good(call[r], worker[r], flight[r], r \in acted)

USE DEF Live, Flights

LEMMA NullsTyped == NoCall \in CallRec /\ NoWorker \in WorkerRec /\ NoResult \in Result
  BY DEF NoCall, NoWorker, NoResult, CallRec, WorkerRec, Result

LEMMA InitCalls == Init => CallInv
<1> SUFFICES ASSUME Init PROVE CallInv
  OBVIOUS
<1>1. /\ NoCall.at = "idle" /\ NoCall.result = NoResult /\ NoWorker.at = "none"
      /\ NoResult.success = FALSE /\ NoResult.in_worker = FALSE
  BY DEF NoCall, NoWorker, NoResult
<1>2. Good(NoCall, NoWorker, "none", FALSE)
  BY <1>1 DEF Good
<1>3. ASSUME NEW r \in Requests
      PROVE  /\ call[r] = NoCall /\ worker[r] = NoWorker /\ flight[r] = "none" /\ r \notin acted
  BY DEF Init, CallInit
<1>4. \A r \in Requests : Good(call[r], worker[r], flight[r], r \in acted)
  BY <1>2, <1>3 DEF Good
<1>5. QED
  BY <1>4, NullsTyped DEF Init, CallInit, CallInv

(* A step at one call.                                                     *)
LEMMA OneCall ==
  ASSUME CallInv, NEW r \in Requests, NEW c \in CallRec, NEW w \in WorkerRec, NEW f \in Flights,
         call' = [call EXCEPT ![r] = c], worker' = [worker EXCEPT ![r] = w],
         flight' = [flight EXCEPT ![r] = f],
         acted' = acted \/ acted' = acted \cup {r},
         Good(c, w, f, r \in acted')
  PROVE  CallInv'
<1>1. /\ call' \in [Requests -> CallRec] /\ worker' \in [Requests -> WorkerRec]
      /\ flight' \in [Requests -> Flights] /\ acted' \subseteq Requests
  BY DEF CallInv
<1>2. ASSUME NEW x \in Requests
      PROVE  Good(call'[x], worker'[x], flight'[x], x \in acted')
  <2>1. CASE x = r
    BY <2>1 DEF CallInv
  <2>2. CASE x # r
    <3>1. /\ call'[x] = call[x] /\ worker'[x] = worker[x] /\ flight'[x] = flight[x]
          /\ x \in acted' <=> x \in acted
      BY <2>2 DEF CallInv
    <3>2. Good(call[x], worker[x], flight[x], x \in acted)
      BY DEF CallInv
    <3>3. QED
      BY <3>1, <3>2 DEF Good
  <2>3. QED
    BY <2>1, <2>2
<1>3. (\A x \in Requests : Good(call[x], worker[x], flight[x], x \in acted))'
  BY <1>2
<1>4. QED
  BY <1>1, <1>3 DEF CallInv

LEMMA LiveIsRunning ==
  ASSUME CallInv, NEW r \in Requests, worker[r].at \in Live
  PROVE  /\ call[r].at = "running" /\ call[r].result = NoResult /\ call[r].what.valid = TRUE
         /\ call[r] \in CallRec /\ worker[r] \in WorkerRec /\ flight[r] \in Flights
         /\ Good(call[r], worker[r], flight[r], r \in acted)
  BY DEF CallInv, Good, CallRec

(* A worker that goes on, with what it sends on its way.                   *)
LEMMA MovesOn ==
  ASSUME CallInv, NEW r \in Requests, worker[r].at \in Live,
         NEW w \in WorkerRec, w.at \in Live \cup {"crashed"}, NEW f \in Flights,
         worker' = [worker EXCEPT ![r] = w], flight' = [flight EXCEPT ![r] = f],
         call' = call, acted' = acted,
         f = flight[r] \/ (f = "sent" /\ call[r].what.tool \in Actors),
         w.at = "acting" => call[r].what.tool \in Actors,
         w.at = "walking" => call[r].what.tool \notin Actors,
         w.at = "getting" => call[r].what.tool \notin Actors \ Adders
  PROVE  CallInv'
<1>1. call' = [call EXCEPT ![r] = call[r]]
  BY DEF CallInv
<1>2. Good(call[r], w, f, r \in acted')
  BY LiveIsRunning DEF Good, NoResult
<1>3. call[r] \in CallRec
  BY LiveIsRunning
<1>4. QED
  BY <1>1, <1>2, <1>3, OneCall

LEMMA Finishes ==
  ASSUME CallInv, NEW r \in Requests, worker[r].at \in Live, NEW ok \in BOOLEAN, Finish(r, ok),
         NEW f \in {"none", flight[r]}, flight' = [flight EXCEPT ![r] = f],
         call' = call, acted' = acted,
         ok = TRUE /\ call[r].what.tool \in Actors => flight[r] = "done"
  PROVE  CallInv'
<1> DEFINE w == [worker[r] EXCEPT !.at = "exited", !.ok = ok]
<1>1. w \in WorkerRec /\ w.at = "exited" /\ w.ok = ok
  BY LiveIsRunning DEF WorkerRec
<1>2. call' = [call EXCEPT ![r] = call[r]] /\ worker' = [worker EXCEPT ![r] = w]
  BY DEF CallInv, Finish
<1>3. f \in Flights
  BY LiveIsRunning
<1> HIDE DEF w
<1>4. Good(call[r], w, f, r \in acted')
  BY <1>1, LiveIsRunning DEF Good, NoResult
<1>5. call[r] \in CallRec
  BY LiveIsRunning
<1>6. QED
  BY <1>1, <1>2, <1>3, <1>4, <1>5, OneCall

LEMMA WorkerKeeps ==
  ASSUME CallInv, NEW r \in Requests, WorkerStep(r)
  PROVE  CallInv'
<1> USE DEF callVars
<1>u. worker' = worker \/ worker[r].at \in Live
  BY DEF WorkerStep, Boot, RunUnknown, ToolRefuses, RunFileTool, StartWalk, Request, SearchAnswered, AddPosts,
         AddGivesUp, ActAnswered, ActFails, WalkFile, WalkEnds, WorkerDies
<1>f. flight = [flight EXCEPT ![r] = flight[r]] /\ flight[r] \in Flights
  BY DEF CallInv
<1>a. ASSUME worker[r].at \in Live, NEW stage \in Live \cup {"crashed"}, At(r, stage),
             NEW f \in Flights, flight' = [flight EXCEPT ![r] = f],
             call' = call, acted' = acted,
             f = flight[r] \/ (f = "sent" /\ call[r].what.tool \in Actors),
             stage = "acting" => call[r].what.tool \in Actors,
             stage = "walking" => call[r].what.tool \notin Actors,
             stage = "getting" => call[r].what.tool \notin Actors \ Adders
      PROVE  CallInv'
  <2> DEFINE w == [worker[r] EXCEPT !.at = stage]
  <2>1. w \in WorkerRec /\ w.at = stage
    BY <1>a, LiveIsRunning DEF WorkerRec
  <2>2. worker' = [worker EXCEPT ![r] = w]
    BY <1>a DEF At
  <2> HIDE DEF w
  <2>3. QED
    BY <1>a, <2>1, <2>2, MovesOn
<1>1. CASE Boot(r)
  <2>1. PICK cfg \in Address \cup {NoUrl} :
          worker' = [worker EXCEPT ![r].at = "ready", ![r].env = GatewayUrl, ![r].cfg = cfg]
    BY <1>1, ToolCallAssumption DEF Boot
  <2> DEFINE w == [worker[r] EXCEPT !.at = "ready", !.env = GatewayUrl, !.cfg = cfg]
  <2>2. worker[r].at \in Live
    BY <1>1 DEF Boot
  <2>3. w \in WorkerRec /\ w.at = "ready"
    BY <2>2, LiveIsRunning DEF WorkerRec
  <2>4. worker' = [worker EXCEPT ![r] = w]
    BY <2>1
  <2> HIDE DEF w
  <2>5. QED
    BY <1>1, <1>f, <2>2, <2>3, <2>4, MovesOn DEF Boot
<1>2. CASE RunUnknown(r) \/ ToolRefuses(r)
  BY <1>2, <1>f, Finishes DEF RunUnknown, ToolRefuses
<1>3. CASE RunFileTool(r)
  <2>1. PICK ok \in BOOLEAN : Finish(r, ok)
    BY <1>3 DEF RunFileTool, FileAnswer
  <2>2. call[r].what.tool \notin Actors
    BY <1>3 DEF RunFileTool, FileTools, Actors, Adders
  <2>3. QED
    BY <1>3, <1>f, <2>1, <2>2, Finishes DEF RunFileTool
<1>4. CASE StartWalk(r)
  <2>1. call[r].what.tool \notin Actors
    BY <1>4 DEF StartWalk, WalkTools, Actors, Adders
  <2>2. QED
    BY <1>4, <1>a, <1>f, <2>1 DEF StartWalk
<1>5. CASE Request(r)
  <2>1. worker[r].at \in Live /\ call' = call /\ acted' = acted
    BY <1>5 DEF Request
  <2>2. CASE Finish(r, FALSE) /\ flight' = flight
    BY <1>f, <2>1, <2>2, Finishes
  <2>3. CASE At(r, "getting") /\ flight' = flight /\ call[r].what.tool \notin Actors \ Adders
    <3>1. flight' = [flight EXCEPT ![r] = flight[r]]
      BY <1>f, <2>3
    <3> DEFINE w == [worker[r] EXCEPT !.at = "getting"]
    <3>2. w \in WorkerRec /\ w.at = "getting"
      BY <2>1, LiveIsRunning DEF WorkerRec
    <3>3. worker' = [worker EXCEPT ![r] = w]
      BY <2>3 DEF At
    <3> HIDE DEF w
    <3>4. QED
      BY <1>f, <2>1, <2>3, <3>1, <3>2, <3>3, MovesOn
  <2>4. CASE At(r, "acting") /\ flight' = [flight EXCEPT ![r] = "sent"] /\ call[r].what.tool \in Actors
    BY <1>a, <2>1, <2>4
  <2>5. QED
    BY <1>5, <1>f, <2>2, <2>3, <2>4 DEF Request
<1>6. ASSUME NEW ok \in BOOLEAN, SearchAnswered(r, ok) PROVE CallInv'
  <2>1. call[r].what.tool \notin Actors
    BY <1>6, LiveIsRunning DEF SearchAnswered, Good
  <2>2. QED
    BY <1>6, <1>f, <2>1, Finishes DEF SearchAnswered
<1>7. CASE AddPosts(r)
  BY <1>7, <1>a DEF AddPosts, Actors
<1>8. CASE AddGivesUp(r)
  BY <1>8, <1>f, Finishes DEF AddGivesUp
<1>9. CASE ActAnswered(r)
  BY <1>9, <1>f, Finishes DEF ActAnswered
<1>10. CASE ActFails(r)
  BY <1>10, <1>f, Finishes DEF ActFails
<1>11. ASSUME NEW k, WalkFile(r, k) PROVE CallInv'
  BY <1>11 DEF WalkFile, CallInv, Good
<1>12. CASE WalkEnds(r)
  <2>1. call[r].what.tool \notin Actors
    BY <1>12, LiveIsRunning DEF WalkEnds, Good
  <2>2. QED
    BY <1>12, <1>f, <2>1, Finishes DEF WalkEnds
<1>13. CASE WorkerDies(r)
  BY <1>13, <1>a, <1>f DEF WorkerDies
<1>14. QED
  BY <1>1, <1>2, <1>3, <1>4, <1>5, <1>6, <1>7, <1>8, <1>9, <1>10, <1>11, <1>12, <1>13
  DEF WorkerStep

(* The caller's steps.                                                     *)
LEMMA CallerKeeps ==
  ASSUME CallInv, NEW r \in Requests, Executing(r)
  PROVE  CallInv'
<1>t. /\ call[r] \in CallRec /\ worker[r] \in WorkerRec /\ flight[r] \in Flights
      /\ Good(call[r], worker[r], flight[r], r \in acted)
  BY DEF CallInv
<1>s. /\ worker = [worker EXCEPT ![r] = worker[r]] /\ flight = [flight EXCEPT ![r] = flight[r]]
  BY DEF CallInv
<1>1. ASSUME NEW c \in Calls, ExecuteStarts(r, c) PROVE CallInv'
  <2> DEFINE k == [NoCall EXCEPT !.at = "running", !.what = c]
  <2>1. k \in CallRec /\ k.at = "running" /\ k.what = c /\ k.result = NoResult
    BY NullsTyped DEF NoCall, CallRec
  <2>2. c.valid \in BOOLEAN
    BY ToolCallAssumption DEF Call
  <2>3. /\ call[r].at = "idle" /\ call' = [call EXCEPT ![r] = k] /\ flight' = flight /\ acted' = acted
        /\ worker' = worker \/ (c.valid = TRUE /\ At(r, "starting"))
    BY <1>1, <2>2 DEF ExecuteStarts, StartCall
  <2> HIDE DEF k
  <2>4. worker[r].at = "none" /\ flight[r] = "none" /\ r \notin acted
    BY <1>t, <2>3 DEF Good
  <2>5. NoResult.success = FALSE /\ NoResult.in_worker = FALSE
    BY DEF NoResult
  <2>6. CASE worker' = worker
    <3>1. Good(k, worker[r], flight[r], r \in acted')
      BY <2>1, <2>3, <2>4, <2>5 DEF Good
    <3>2. QED
      BY <1>s, <1>t, <2>1, <2>3, <2>6, <3>1, OneCall
  <2>7. CASE c.valid = TRUE /\ At(r, "starting")
    <3> DEFINE w == [worker[r] EXCEPT !.at = "starting"]
    <3>1. w \in WorkerRec /\ w.at = "starting"
      BY <1>t DEF WorkerRec
    <3>2. worker' = [worker EXCEPT ![r] = w]
      BY <2>7 DEF At
    <3> HIDE DEF w
    <3>3. Good(k, w, flight[r], r \in acted')
      BY <2>1, <2>3, <2>4, <2>5, <2>7, <3>1 DEF Good
    <3>4. QED
      BY <1>s, <1>t, <2>1, <2>3, <3>1, <3>2, <3>3, OneCall
  <2>8. QED
    BY <2>3, <2>6, <2>7
<1>a. ASSUME NEW result \in Result, Answer(r, result), call[r].at \in {"running", "draining"},
             worker[r].at \notin Live, worker[r].at # "killed" \/ result.timeout = TRUE,
             result.success = TRUE => result.in_worker = TRUE,
             result.in_worker = TRUE => worker[r].at = "exited" /\ result.success = worker[r].ok
      PROVE  CallInv'
  <2> DEFINE k == [call[r] EXCEPT !.at = "answered", !.result = result]
  <2>1. k \in CallRec /\ k.at = "answered" /\ k.what = call[r].what /\ k.result = result
    BY <1>t DEF CallRec
  <2>2. /\ call' = [call EXCEPT ![r] = k]
        /\ UNCHANGED <<worker, flight, acted>>
    BY <1>a DEF Answer
  <2> HIDE DEF k
  <2>3. Good(k, worker[r], flight[r], r \in acted')
    BY <1>a, <1>t, <2>1, <2>2 DEF Good
  <2>4. QED
    BY <1>s, <1>t, <2>1, <2>2, <2>3, OneCall
<1>2. CASE Collect(r)
  <2>1. CASE worker[r].at \in {"none", "crashed"} /\ Answer(r, NoResult)
    BY <1>2, <1>a, <2>1, NullsTyped DEF Collect, NoResult
  <2>2. CASE worker[r].at = "exited"
    <3> DEFINE result == [success |-> worker[r].ok, in_worker |-> TRUE, timeout |-> FALSE]
    <3>1. result \in Result /\ result.in_worker = TRUE /\ result.success = worker[r].ok
      BY <1>t DEF Result, WorkerRec
    <3>2. Answer(r, result) /\ call[r].at = "running"
      BY <1>2, <2>2 DEF Collect
    <3> HIDE DEF result
    <3>3. QED
      BY <1>a, <2>2, <3>1, <3>2
  <2>3. QED
    BY <1>2, <2>1, <2>2 DEF Collect
<1>3. CASE Drain(r)
  <2> DEFINE result == [NoResult EXCEPT !.timeout = TRUE]
  <2>1. result \in Result /\ result.timeout = TRUE /\ result.in_worker = FALSE /\ result.success = FALSE
    BY DEF NoResult, Result
  <2>2. Answer(r, result) /\ call[r].at = "draining"
    BY <1>3 DEF Drain
  <2>3. worker[r].at \notin Live
    BY <1>t, <2>2 DEF Good
  <2> HIDE DEF result
  <2>4. QED
    BY <1>a, <2>1, <2>2, <2>3
<1>4. CASE Timeout(r)
  <2> DEFINE k == [call[r] EXCEPT !.at = "draining"]
             stage == IF worker[r].at \in Live THEN "killed" ELSE worker[r].at
             w == [worker[r] EXCEPT !.at = stage]
  <2>1. k \in CallRec /\ k.at = "draining" /\ k.what = call[r].what /\ k.result = call[r].result
    BY <1>t DEF CallRec
  <2>2. stage \in {"none", "exited", "crashed", "killed"}
    BY <1>t DEF WorkerRec
  <2>3. /\ call' = [call EXCEPT ![r] = k] /\ worker' = [worker EXCEPT ![r] = w]
        /\ flight' = flight /\ acted' = acted /\ call[r].at = "running" /\ worker[r].at # "none"
    BY <1>4 DEF Timeout, Kill
  <2>4. stage # "none" /\ (stage = "exited" => worker[r].at = "exited")
    BY <2>3
  <2> HIDE DEF k, stage
  <2>5. w \in WorkerRec /\ w.at = stage /\ w.ok = worker[r].ok
    BY <1>t, <2>2 DEF WorkerRec
  <2> HIDE DEF w
  <2>6. Good(k, w, flight[r], r \in acted')
    BY <1>t, <2>1, <2>2, <2>3, <2>4, <2>5 DEF Good, NoResult
  <2>7. QED
    BY <1>s, <1>t, <2>1, <2>3, <2>5, <2>6, OneCall
<1>5. CASE DrainTimesOut(r)
  <2> DEFINE k == [call[r] EXCEPT !.at = "raised"]
  <2>1. k \in CallRec /\ k.at = "raised" /\ k.what = call[r].what /\ k.result = call[r].result
    BY <1>t DEF CallRec
  <2>2. /\ call' = [call EXCEPT ![r] = k] /\ call[r].at = "draining"
        /\ UNCHANGED <<worker, flight, acted>>
    BY <1>5 DEF DrainTimesOut
  <2> HIDE DEF k
  <2>3. Good(k, worker[r], flight[r], r \in acted')
    BY <1>t, <2>1, <2>2 DEF Good, NoResult
  <2>4. QED
    BY <1>s, <1>t, <2>1, <2>2, <2>3, OneCall
<1>6. QED
  BY <1>1, <1>2, <1>3, <1>4, <1>5 DEF Executing, ExecuteEnds

LEMMA NextCalls == CallInv /\ [Next]_gatewayVars => CallInv'
<1> SUFFICES ASSUME CallInv, [Next]_gatewayVars PROVE CallInv'
  OBVIOUS
<1>1. CASE UNCHANGED callVars
  BY <1>1 DEF callVars, CallInv, Good
<1>2. ASSUME NEW r \in Requests, Accept(r) PROVE CallInv'
  <2>1. /\ call[r] \in CallRec /\ worker[r] \in WorkerRec /\ flight[r] = "sent"
        /\ Good(call[r], worker[r], flight[r], r \in acted)
    BY <1>2 DEF CallInv, Accept
  <2>2. /\ call' = [call EXCEPT ![r] = call[r]] /\ worker' = [worker EXCEPT ![r] = worker[r]]
        /\ flight' = [flight EXCEPT ![r] = "done"] /\ acted' = acted \cup {r}
    BY <1>2 DEF CallInv, Accept
  <2>3. Good(call[r], worker[r], "done", r \in acted')
    BY <2>1, <2>2 DEF Good
  <2>4. QED
    BY <2>1, <2>2, <2>3, OneCall
<1>3. ASSUME NEW r \in Requests, Working(r) PROVE CallInv'
  BY <1>2, <1>3, WorkerKeeps DEF Working
<1>4. QED
  BY <1>1, <1>3, CallerKeeps, Steps DEF Door, Ingesting, Planning, Editing, gatewayVars

Truthful(r) ==
  LET c == call[r]
  IN  /\ c.result.success = TRUE =>
           c.result.in_worker = TRUE /\ (c.what.tool \in Actors => r \in acted)
      /\ c.result.in_worker = TRUE => worker[r].at = "exited" /\ c.result.success = worker[r].ok
      /\ worker[r].at = "killed" /\ c.at = "answered" => c.result.timeout = TRUE
      /\ r \in acted => c.what.tool \in Actors /\ c.what.valid = TRUE

(* What a plan is told of a call is what the worker printed, and an action *)
(* it is told of did happen, for all tools, services and timings.          *)
THEOREM CallsTellTheTruth == Spec => []ResultTellsWhatHappened
<1>1. ASSUME CallInv PROVE ResultTellsWhatHappened
  <2>1. \A r \in Requests : Truthful(r)
    BY <1>1 DEF CallInv, Good, Truthful
  <2>2. \A r \in Requests : /\ call[r].result.success \in BOOLEAN
                            /\ call[r].result.in_worker \in BOOLEAN
                            /\ call[r].result.timeout \in BOOLEAN
    BY <1>1 DEF CallInv, CallRec, Result
  <2>3. QED
    BY <2>1, <2>2, Zenon DEF ResultTellsWhatHappened, Truthful
<1>2. QED
  BY InitCalls, NextCalls, <1>1, PTL DEF Spec

-----------------------------------------------------------------------------
(* What a worker asks.                                                     *)
Configured(s) == IF GatewayUrl[s] = NoUrl THEN DefaultUrl[s] ELSE GatewayUrl[s]
Under(url, s) ==
  /\ url.origin = Configured(s).origin /\ Configured(s).origin # NoOrigin
  /\ SubSeq(url.path, 1, Len(Configured(s).path)) = Configured(s).path
Working4 == {"ready", "walking", "getting", "acting"}

AskInv ==
  /\ call \in [Requests -> CallRec] /\ worker \in [Requests -> WorkerRec]
  /\ asked \in [Requests -> SUBSET Address] /\ DOMAIN scan = Requests
  /\ \A r \in Requests :
       /\ call[r].at = "idle" => asked[r] = {}
       /\ worker[r].at \in Working4 =>
            worker[r].env = GatewayUrl /\ worker[r].cfg = Configured("radarr")
       /\ \A url \in asked[r] : Under(url, ServiceOf(call[r].what.tool))

LEMMA ConfiguredTyped == \A s \in Services : Configured(s) \in Address
  BY ToolCallAssumption DEF Configured

LEMMA BelowItsBase ==
  ASSUME NEW base \in Address, NEW e \in Seq(Segments)
  PROVE  LET url == [base EXCEPT !.path = @ \o e]
         IN  /\ url \in Address /\ url.origin = base.origin
             /\ SubSeq(url.path, 1, Len(base.path)) = base.path
<1>1. base.path \in Seq(Segments) /\ base.path \o e \in Seq(Segments)
  BY DEF Address
<1>2. SubSeq(base.path \o e, 1, Len(base.path)) = base.path
  <2>1. CASE Len(base.path) = 0
    BY <1>1, <2>1, SubSeqEmpty, EmptySeq
  <2>2. CASE Len(base.path) # 0
    <3>1. 1 \in 1..Len(base.path) /\ Len(base.path) \in 1..Len(base.path)
      BY <1>1, <2>2
    <3>2. SubSeq(base.path \o e, 1, Len(base.path)) = SubSeq(base.path, 1, Len(base.path))
      BY <1>1, <3>1, SubSeqOfConcat1
    <3>3. QED
      BY <1>1, <3>2, SubSeqFull
  <2>3. QED
    BY <2>1, <2>2
<1>3. QED
  BY <1>1, <1>2 DEF Address

LEMMA AsksItsService ==
  ASSUME AskInv, NEW r \in Requests, worker[r].at \in Working4, NEW step,
         ValidateHttpDestination(Target(r, step), BaseUrl(r))
  PROVE  /\ Target(r, step) \in Address
         /\ Under(Target(r, step), ServiceOf(call[r].what.tool))
<1> DEFINE s == ServiceOf(call[r].what.tool)
<1>1. s \in Services /\ (call[r].what.tool = "radarr_add" => s = "radarr")
  BY ToolCallAssumption DEF ServiceOf
<1>2. worker[r].env = GatewayUrl /\ worker[r].cfg = Configured("radarr")
  BY DEF AskInv
<1>3. BaseUrl(r) = Configured(s)
  BY <1>1, <1>2 DEF BaseUrl, Configured
<1>4. Configured(s) \in Address
  BY <1>1, ConfiguredTyped
<1>5. PICK e \in Seq(Segments) : Target(r, step) = [BaseUrl(r) EXCEPT !.path = @ \o e]
  <2>1. /\ Endpoint.sabnzbd \in Seq(Segments)
        /\ Endpoint.radarr_get \in Seq(Segments) /\ Endpoint.radarr_act \in Seq(Segments)
        /\ Endpoint.sonarr_get \in Seq(Segments) /\ Endpoint.sonarr_act \in Seq(Segments)
    <3>1. /\ <<"api">> \in Seq(Segments)
          /\ <<"api", "v3", "movie", "lookup">> \in Seq(Segments)
          /\ <<"api", "v3", "movie">> \in Seq(Segments)
          /\ <<"api", "v3", "series", "lookup">> \in Seq(Segments)
          /\ <<"api", "v3", "series">> \in Seq(Segments)
      BY ToolCallAssumption
    <3>2. QED
      BY <3>1 DEF Endpoint
  <2>2. QED
    BY <1>1, <2>1, ToolCallAssumption DEF Target
<1>6. BaseUrl(r).origin # NoOrigin
  BY DEF ValidateHttpDestination
<1> HIDE DEF s
<1>7. QED
  BY <1>3, <1>4, <1>5, <1>6, BelowItsBase DEF Under, s

LEMMA InitAsk == Init => AskInv
<1> SUFFICES ASSUME Init PROVE AskInv
  OBVIOUS
<1>1. \A r \in Requests : call[r] = NoCall /\ worker[r] = NoWorker /\ asked[r] = {}
  BY DEF Init, CallInit
<1>2. NoWorker.at = "none"
  BY DEF NoWorker
<1>3. QED
  BY <1>1, <1>2, NullsTyped, ToolCallAssumption
  DEF Init, CallInit, RepoInit, AskInv, Working4

(* The worker's steps by what they change of all this.                     *)
LEMMA WorkerAsks ==
  ASSUME AskInv, CallInv, CallInv', NEW r \in Requests, WorkerStep(r)
  PROVE  AskInv'
<1> USE DEF callVars, repoVars
<1>t. /\ call' \in [Requests -> CallRec] /\ worker' \in [Requests -> WorkerRec]
  BY DEF CallInv
<1>1. /\ call' = call /\ DOMAIN scan' = Requests
      /\ \A x \in Requests \ {r} : worker'[x] = worker[x]
  BY DEF CallInv, AskInv, WorkerStep, Boot, RunUnknown, ToolRefuses, RunFileTool, StartWalk, Request,
         SearchAnswered, AddPosts, AddGivesUp, ActAnswered, ActFails, WalkFile, WalkEnds,
         WorkerDies, Finish, At, StartScan, ScanFile
<1>2. \/ asked' = asked
      \/ /\ worker[r].at \in Working4
         /\ \E step \in {"get", "act"} :
              /\ ValidateHttpDestination(Target(r, step), BaseUrl(r))
              /\ asked' = [asked EXCEPT ![r] = @ \cup {Target(r, step)}]
  BY DEF WorkerStep, Boot, RunUnknown, ToolRefuses, RunFileTool, StartWalk, Request,
         SearchAnswered, AddPosts, AddGivesUp, ActAnswered, ActFails, WalkFile, WalkEnds,
         WorkerDies, Working4
<1>3. worker'[r].at \in Working4 =>
        worker'[r].env = GatewayUrl /\ worker'[r].cfg = Configured("radarr")
  <2>1. CASE Boot(r)
    BY <2>1 DEF CallInv, WorkerRec, Boot, Configured
  <2>2. CASE ~Boot(r)
    <3>1. /\ worker'[r].at \in Working4 => worker[r].at \in Working4
          /\ worker'[r].env = worker[r].env /\ worker'[r].cfg = worker[r].cfg
      BY <2>2 DEF CallInv, WorkerRec, WorkerStep, RunUnknown, ToolRefuses, RunFileTool, StartWalk, Request,
         SearchAnswered, AddPosts, AddGivesUp, ActAnswered, ActFails, WalkFile, WalkEnds,
         WorkerDies, Finish, At, Working4
    <3>2. QED
      BY <3>1 DEF AskInv
  <2>3. QED
    BY <2>1, <2>2
<1>4. call[r].at # "idle"
  BY DEF CallInv, Good, WorkerStep, Boot, RunUnknown, ToolRefuses, RunFileTool, StartWalk, Request,
         SearchAnswered, AddPosts, AddGivesUp, ActAnswered, ActFails, WalkFile, WalkEnds,
         WorkerDies
<1>5. CASE asked' = asked
  BY <1>t, <1>1, <1>3, <1>5 DEF AskInv
<1>6. ASSUME worker[r].at \in Working4, NEW step,
             ValidateHttpDestination(Target(r, step), BaseUrl(r)),
             asked' = [asked EXCEPT ![r] = @ \cup {Target(r, step)}]
      PROVE  AskInv'
  <2>1. Target(r, step) \in Address /\ Under(Target(r, step), ServiceOf(call[r].what.tool))
    BY <1>6, AsksItsService
  <2> DEFINE url == Target(r, step)
  <2> HIDE DEF url
  <2>2. asked' = [asked EXCEPT ![r] = @ \cup {url}]
    BY <1>6 DEF url
  <2>3. url \in Address /\ Under(url, ServiceOf(call[r].what.tool))
    BY <2>1 DEF url
  <2>4. asked' \in [Requests -> SUBSET Address]
    BY <2>2, <2>3 DEF AskInv
  <2>5. \A x \in Requests : \A u \in asked'[x] : Under(u, ServiceOf(call'[x].what.tool))
    BY <1>1, <2>2, <2>3 DEF AskInv
  <2>6. \A x \in Requests : call'[x].at = "idle" => asked'[x] = {}
    BY <1>1, <1>4, <2>2 DEF AskInv
  <2>7. (\A x \in Requests : \A u \in asked[x] : Under(u, ServiceOf(call[x].what.tool)))'
    BY <2>5 DEF Under, Configured, ServiceOf
  <2>8. QED
    BY <1>t, <1>1, <1>3, <2>4, <2>6, <2>7 DEF AskInv
<1>7. QED
  BY <1>2, <1>5, <1>6

LEMMA NextAsk == CallInv /\ CallInv' /\ AskInv /\ [Next]_gatewayVars => AskInv'
<1> SUFFICES ASSUME CallInv, CallInv', AskInv, [Next]_gatewayVars PROVE AskInv'
  OBVIOUS
<1>t. /\ call' \in [Requests -> CallRec] /\ worker' \in [Requests -> WorkerRec]
  BY DEF CallInv
<1>1. CASE UNCHANGED <<call, worker, asked>> /\ DOMAIN scan' = Requests
  BY <1>1 DEF AskInv, Under, ServiceOf
<1>2. ASSUME NEW r \in Requests, Working(r) PROVE AskInv'
  BY <1>1, <1>2, WorkerAsks DEF Working, Accept, repoVars, AskInv
<1>3. ASSUME NEW r \in Requests, Executing(r) PROVE AskInv'
  <2>1. asked' = asked /\ scan' = scan /\ \A x \in Requests \ {r} : call'[x] = call[x] /\ worker'[x] = worker[x]
    BY <1>3 DEF CallInv, Executing, ExecuteStarts, ExecuteEnds, StartCall, Collect, Drain, Answer,
                Timeout, Kill, DrainTimesOut, At, repoVars
  <2>2. /\ call[r].at = "idle" \/ (call'[r].at # "idle" /\ call'[r].what = call[r].what)
        /\ worker'[r].at \in Working4 => worker'[r] = worker[r]
    <3>t. call[r] \in CallRec /\ worker[r] \in WorkerRec
      BY DEF CallInv
    <3>1. ASSUME NEW c \in Calls, ExecuteStarts(r, c)
          PROVE  call[r].at = "idle" /\ (worker'[r].at \in Working4 => worker'[r] = worker[r])
      BY <3>t, <3>1 DEF CallInv, WorkerRec, ExecuteStarts, StartCall, At, Working4
    <3>2. ASSUME NEW result, Answer(r, result)
          PROVE  /\ call'[r].at # "idle" /\ call'[r].what = call[r].what
                 /\ worker' = worker
      BY <3>t, <3>2 DEF CallInv, CallRec, Answer
    <3>3. CASE Timeout(r) \/ DrainTimesOut(r)
      <4>1. call'[r].at # "idle" /\ call'[r].what = call[r].what
        BY <3>t, <3>3 DEF CallInv, CallRec, Timeout, DrainTimesOut
      <4>2. worker'[r].at \in Working4 => worker'[r] = worker[r]
        BY <3>t, <3>3 DEF CallInv, WorkerRec, Timeout, DrainTimesOut, Kill, Working4
      <4>3. QED
        BY <4>1, <4>2
    <3>4. QED
      BY <1>3, <3>1, <3>2, <3>3 DEF Executing, ExecuteEnds, Collect, Drain
  <2>4. /\ call'[r].at = "idle" => asked'[r] = {}
        /\ worker'[r].at \in Working4 =>
             worker'[r].env = GatewayUrl /\ worker'[r].cfg = Configured("radarr")
        /\ \A url \in asked'[r] : Under(url, ServiceOf(call'[r].what.tool))
    BY <2>1, <2>2 DEF AskInv
  <2>5. \A x \in Requests :
          /\ call'[x].at = "idle" => asked'[x] = {}
          /\ worker'[x].at \in Working4 =>
               worker'[x].env = GatewayUrl /\ worker'[x].cfg = Configured("radarr")
          /\ \A url \in asked'[x] : Under(url, ServiceOf(call'[x].what.tool))
    BY <2>1, <2>4 DEF AskInv
  <2>6. (\A x \in Requests : \A url \in asked[x] : Under(url, ServiceOf(call[x].what.tool)))'
    BY <2>5 DEF Under, Configured, ServiceOf
  <2>7. QED
    BY <1>t, <2>1, <2>5, <2>6 DEF AskInv
<1>4. QED
  BY <1>1, <1>2, <1>3, Steps
  DEF Door, Ingesting, Planning, Editing, EditFile, gatewayVars, callVars, repoVars, AskInv

(* A worker asks only below the address the gateway configures.            *)
THEOREM AsksWhatIsConfigured == Spec => []ConfiguredService
<1>1. AskInv => ConfiguredService
  BY DEF AskInv, Under, Configured, ConfiguredService
<1>2. QED
  BY InitCalls, NextCalls, InitAsk, NextAsk, <1>1, PTL DEF Spec

LEMMA OthersRest ==
  ASSUME CallInv, AskInv, NEW r \in Requests, WorkerStep(r) \/ Accept(r), NEW x \in Requests, x # r
  PROVE  asked'[x] = asked[x] /\ flight'[x] = flight[x] /\ scan'[x] = scan[x]
<1> USE DEF callVars, repoVars, CallInv, AskInv
<1>1. CASE Boot(r) \/ RunUnknown(r) \/ ToolRefuses(r) \/ RunFileTool(r) \/ WalkEnds(r) \/ WorkerDies(r)
  BY <1>1 DEF Boot, RunUnknown, ToolRefuses, RunFileTool, WalkEnds, WorkerDies
<1>2. CASE StartWalk(r) \/ \E k \in 0..TopResults["search_repo"] : WalkFile(r, k)
  BY <1>2 DEF StartWalk, WalkFile, StartScan, ScanFile
<1>3. CASE Request(r) \/ AddPosts(r)
  <2>1. scan' = scan
    BY <1>3 DEF Request, AddPosts
  <2>2. asked' = asked \/ \E u : asked' = [asked EXCEPT ![r] = u]
    BY <1>3 DEF Request, AddPosts
  <2>3. flight' = flight \/ \E f : flight' = [flight EXCEPT ![r] = f]
    BY <1>3 DEF Request, AddPosts
  <2>4. QED
    BY <2>1, <2>2, <2>3
<1>4. CASE AddGivesUp(r) \/ ActAnswered(r) \/ ActFails(r) \/ Accept(r)
  BY <1>4 DEF AddGivesUp, ActAnswered, ActFails, Accept
<1>5. CASE \E ok \in BOOLEAN : SearchAnswered(r, ok)
  BY <1>5 DEF SearchAnswered
<1>6. QED
  BY <1>1, <1>2, <1>3, <1>4, <1>5 DEF WorkerStep

(* Nothing is asked, sent or read for a call that is over.                 *)
THEOREM NothingRunsOn == Spec => WorkerEndsWithCall
<1>1. ASSUME CallInv, AskInv, [Next]_gatewayVars, NEW r \in Requests, call[r].at \in {"answered", "raised"}
      PROVE  asked'[r] = asked[r] /\ (flight'[r] = "sent" => flight[r] = "sent") /\ scan'[r] = scan[r]
  <2>1. worker[r].at \notin Live
    BY <1>1 DEF CallInv, Good
  <2>2. ASSUME NEW x \in Requests, Working(x)
        PROVE  asked'[r] = asked[r] /\ (flight'[r] = "sent" => flight[r] = "sent") /\ scan'[r] = scan[r]
    <3>1. CASE x = r
      BY <2>1, <2>2, <3>1
      DEF CallInv, AskInv, Working, WorkerStep, Accept, Boot, RunUnknown, ToolRefuses, RunFileTool, StartWalk, Request,
          SearchAnswered, AddPosts, AddGivesUp, ActAnswered, ActFails, WalkFile, WalkEnds,
          WorkerDies, repoVars
    <3>2. CASE x # r
      <4>1. WorkerStep(x) \/ Accept(x)
        BY <2>2 DEF Working
      <4>2. asked'[r] = asked[r] /\ flight'[r] = flight[r] /\ scan'[r] = scan[r]
        BY <1>1, <3>2, <4>1, OthersRest
      <4>3. QED
        BY <4>2
    <3>3. QED
      BY <3>1, <3>2
  <2>3. ASSUME NEW x \in Requests, Executing(x)
        PROVE  asked'[r] = asked[r] /\ flight'[r] = flight[r] /\ scan'[r] = scan[r]
    BY <2>3 DEF Executing, ExecuteStarts, ExecuteEnds, StartCall, Collect, Drain, Answer, Timeout,
                DrainTimesOut, repoVars
  <2>4. CASE UNCHANGED <<callVars, scan>>
    BY <2>4 DEF callVars
  <2>5. QED
    BY <1>1, <2>2, <2>3, <2>4, Steps
    DEF Door, Ingesting, Planning, Editing, EditFile, gatewayVars, repoVars
<1>2. CallInv /\ AskInv /\ [Next]_gatewayVars =>
        [\A r \in Requests : call[r].at \in {"answered", "raised"} =>
           /\ asked'[r] = asked[r]
           /\ flight'[r] = "sent" => flight[r] = "sent"
           /\ scan'[r] = scan[r]]_<<callVars, repoVars>>
  BY <1>1
<1>3. QED
  BY InitCalls, NextCalls, InitAsk, NextAsk, <1>2, PTL DEF Spec, WorkerEndsWithCall
-----------------------------------------------------------------------------
(* The walks of the workers.                                               *)
LEMMA NextScan == CallInv /\ ScanInv /\ [Next]_gatewayVars => ScanInv'
<1> SUFFICES ASSUME CallInv, ScanInv, [Next]_gatewayVars PROVE ScanInv'
  OBVIOUS
<1>1. CASE UNCHANGED repoVars
  BY <1>1 DEF repoVars, ScanInv, Exact, Once
<1>2. ASSUME NEW r \in Requests, StartWalk(r) PROVE ScanInv'
  <2>1. call[r].what \in Calls \cup {NoArgs}
    BY DEF CallInv, CallRec
  <2>2. call[r].what.max \in Int
    BY <2>1, ToolCallAssumption DEF Call, NoArgs
  <2>3. r \in Callers
    BY ToolCallAssumption
  <2>4. QED
    BY <1>2, <2>2, <2>3, WalkStarts DEF StartWalk
<1>3. ASSUME NEW r \in Requests, NEW k, WalkFile(r, k) PROVE ScanInv'
  BY <1>3, WalkGoesOn, ToolCallAssumption DEF WalkFile
<1>4. ASSUME NEW r \in Requests, Working(r) PROVE ScanInv'
  BY <1>1, <1>2, <1>3, <1>4
  DEF Working, Accept, WorkerStep, Boot, RunUnknown, ToolRefuses, RunFileTool, Request, SearchAnswered, AddPosts,
      AddGivesUp, ActAnswered, ActFails, WalkEnds, WorkerDies
<1>5. ASSUME NEW r \in Requests, Executing(r) PROVE ScanInv'
  BY <1>1, <1>5 DEF Executing, ExecuteStarts, ExecuteEnds, StartCall, Collect, Drain, Answer,
                    Timeout, DrainTimesOut
<1>6. CASE Editing
  BY <1>6, FileChanges DEF Editing
<1>7. QED
  BY <1>1, <1>4, <1>5, <1>6, Steps DEF Door, Ingesting, Planning, gatewayVars

(* A walk's result is the first hits of what it read, none twice, and all  *)
(* of them unless it found as many as were asked for: for any tree, any    *)
(* traits of its files, any limits and any changes of files on the way.    *)
THEOREM WalksAreExact == Spec => []WalkIsExact
<1>1. Init => ScanInv
  BY InitScan DEF Init
<1>2. QED
  BY <1>1, InitCalls, NextCalls, NextScan, ScanIsExact, PTL DEF Spec
-----------------------------------------------------------------------------
(* The active workspaces.                                                  *)
ActiveTyped == active \subseteq PlanIds

LEMMA NextActive == SoundInv /\ ActiveTyped /\ [Next]_gatewayVars => ActiveTyped'
<1> SUFFICES ASSUME SoundInv, ActiveTyped, [Next]_gatewayVars PROVE ActiveTyped'
  OBVIOUS
<1> USE DEF ActiveTyped
<1>1. CASE UNCHANGED active
  BY <1>1
<1>2. ASSUME NEW r \in Requests, NEW id \in PlanIds, NEW agent, NEW text, NEW heard,
             Build(r, id, agent, text, heard)
      PROVE  ActiveTyped'
  BY <1>2 DEF Build, ProposeBody, AnswerOnly
<1>3. ASSUME NEW r \in Requests, NEW heard, RouterAnswered(r, heard) PROVE ActiveTyped'
  <2>1. job[r].id \in PlanIds
    BY <1>3 DEF RouterAnswered, SoundInv, SoundJob
  <2>2. QED
    BY <1>2, <1>3, <2>1 DEF RouterAnswered, AnswerOnly
<1>4. ASSUME NEW r \in Requests, NEW id \in PlanIds, NEW plan, ProposeDraft(r, id, plan)
      PROVE  ActiveTyped'
  BY <1>4 DEF ProposeDraft, ProposeBody
<1>5. ASSUME NEW r \in Requests, NEW id \in PlanIds, NEW text,
             \/ \E a \in AgentNames : FromMessageManual(r, id, a, text)
             \/ FromMessageRouted(r, id, text) \/ Decide(r, id)
      PROVE  ActiveTyped'
  BY <1>2, <1>5 DEF FromMessageManual, FromMessageRouted, Decide
<1>6. ASSUME NEW r \in Requests, IntakeStep(r) PROVE ActiveTyped'
  BY <1>3, <1>4, <1>5, <1>6
  DEF IntakeStep, RefuseMalformed, RouterFails, SavePending, SaveTimesOut, SaveFails,
      FinishPropose, DecideFails, CloseDecision, RegistryChanges, AnswerOnly
<1>7. QED
  BY <1>1, <1>6, Steps
  DEF Door, Ingesting, Planning, Executing, Working, Editing, gatewayVars, intakeVars
-----------------------------------------------------------------------------
(* The audit ring.  Dropping what is old before or after more is appended  *)
(* makes no difference to what is newest.                                  *)
LEMMA NewestIs ==
  ASSUME NEW S, NEW q \in Seq(S), NEW M \in Nat
  PROVE  LET d == IF Len(q) > M THEN Len(q) - M ELSE 0
         IN  /\ d \in 0..Len(q) /\ Newest(M, q) \in Seq(S) /\ Len(Newest(M, q)) = Len(q) - d
             /\ \A i \in 1..(Len(q) - d) : Newest(M, q)[i] = q[d + i]
<1> DEFINE n == Len(q)
           d == IF n > M THEN n - M ELSE 0
<1>1. n \in Nat /\ d \in 0..n
  OBVIOUS
<1>2. Newest(M, q) = SubSeq(q, 1 + d, n)
  BY DEF Newest
<1> HIDE DEF d
<1>3. \A i \in (1 + d)..n : q[i] \in S
  BY <1>1
<1>4. /\ SubSeq(q, 1 + d, n) \in Seq(S) /\ Len(SubSeq(q, 1 + d, n)) = n - d
      /\ \A i \in 1..(n - d) : SubSeq(q, 1 + d, n)[i] = q[d + i]
  BY <1>1, <1>3
<1>5. QED
  BY <1>1, <1>2, <1>4 DEF d

LEMMA NewestJoins ==
  ASSUME NEW S, NEW a \in Seq(S), NEW b \in Seq(S), NEW M \in Nat
  PROVE  Newest(M, Newest(M, a) \o b) = Newest(M, a \o b)
<1> DEFINE n == Len(a)
           m == Len(b)
           d == IF n > M THEN n - M ELSE 0
           w == Newest(M, a)
           u == w \o b
           v == a \o b
           e == IF Len(u) > M THEN Len(u) - M ELSE 0
           f == IF Len(v) > M THEN Len(v) - M ELSE 0
<1>1. /\ n \in Nat /\ m \in Nat /\ d \in 0..n /\ w \in Seq(S) /\ Len(w) = n - d
      /\ \A i \in 1..(n - d) : w[i] = a[d + i]
  BY NewestIs
<1> HIDE DEF w
<1>2. /\ u \in Seq(S) /\ Len(u) = (n - d) + m
      /\ \A i \in 1..(n - d) : u[i] = w[i]
      /\ \A i \in 1..m : u[(n - d) + i] = b[i]
  <2>1. /\ u \in Seq(S) /\ Len(u) = Len(w) + m
        /\ \A i \in 1..Len(w) : u[i] = w[i]
        /\ \A i \in 1..m : u[Len(w) + i] = b[i]
    <3>1. w \in Seq(S)
      BY <1>1
    <3>2. QED
      BY <3>1
  <2>2. QED
    BY <1>1, <2>1, Zenon
<1>3. /\ v \in Seq(S) /\ Len(v) = n + m
      /\ \A i \in 1..n : v[i] = a[i]
      /\ \A i \in 1..m : v[n + i] = b[i]
  OBVIOUS
<1> HIDE DEF u, v
<1>4. /\ e \in 0..Len(u) /\ Newest(M, u) \in Seq(S) /\ Len(Newest(M, u)) = Len(u) - e
      /\ \A i \in 1..(Len(u) - e) : Newest(M, u)[i] = u[e + i]
  BY <1>2, NewestIs
<1>5. /\ f \in 0..Len(v) /\ Newest(M, v) \in Seq(S) /\ Len(Newest(M, v)) = Len(v) - f
      /\ \A i \in 1..(Len(v) - f) : Newest(M, v)[i] = v[f + i]
  BY <1>3, NewestIs
<1>6. f = d + e
  <2>1. n \in Nat /\ m \in Nat /\ Len(u) = (n - d) + m /\ Len(v) = n + m
    BY <1>1, <1>2, <1>3
  <2> HIDE DEF n, m
  <2>2. QED
    BY <2>1
<1> HIDE DEF e, f, d
<1>7. Len(Newest(M, u)) = Len(Newest(M, v))
  BY <1>1, <1>2, <1>3, <1>4, <1>5, <1>6
<1>8. \A j \in 1..Len(u) : u[j] = v[d + j]
  <2> SUFFICES ASSUME NEW j \in 1..Len(u) PROVE u[j] = v[d + j]
    OBVIOUS
  <2>1. CASE j \in 1..(n - d)
    <3>1. d + j \in 1..n
      BY <1>1, <2>1
    <3>2. QED
      BY <1>1, <1>2, <1>3, <2>1, <3>1
  <2>2. CASE j \notin 1..(n - d)
    <3>1. j - (n - d) \in 1..m /\ (n - d) + (j - (n - d)) = j /\ n + (j - (n - d)) = d + j
      BY <1>1, <1>2, <2>2
    <3>2. u[(n - d) + (j - (n - d))] = b[j - (n - d)] /\ v[n + (j - (n - d))] = b[j - (n - d)]
      BY <1>2, <1>3, <3>1
    <3>3. QED
      BY <3>1, <3>2
  <2>3. QED
    BY <2>1, <2>2
<1>9. \A i \in 1..Len(Newest(M, u)) : Newest(M, u)[i] = Newest(M, v)[i]
  <2> SUFFICES ASSUME NEW i \in 1..Len(Newest(M, u)) PROVE Newest(M, u)[i] = Newest(M, v)[i]
    OBVIOUS
  <2>1. e + i \in 1..Len(u) /\ f + i = d + (e + i) /\ i \in 1..(Len(u) - e) /\ i \in 1..(Len(v) - f)
    BY <1>1, <1>2, <1>3, <1>4, <1>5, <1>6
  <2>2. Newest(M, u)[i] = u[e + i] /\ Newest(M, v)[i] = v[f + i] /\ u[e + i] = v[d + (e + i)]
    BY <1>4, <1>5, <1>8, <2>1
  <2>3. QED
    BY <2>1, <2>2
<1>10. Newest(M, u) = Newest(M, v)
  <2> DEFINE x == Newest(M, u)
             y == Newest(M, v)
  <2>1. x \in Seq(S) /\ y \in Seq(S) /\ Len(x) = Len(y) /\ \A i \in 1..Len(x) : x[i] = y[i]
    BY <1>4, <1>5, <1>7, <1>9
  <2> HIDE DEF x, y
  <2>2. x = y
    BY <2>1, SeqEqual
  <2>3. QED
    BY <2>2 DEF x, y
<1>11. QED
  BY <1>10 DEF u, v, w

RingInv == appended \in Seq(AuditEntry) /\ log = Newest(MaxEntries, appended)

LEMMA InitRing == AuditInit => RingInv
<1>1. SubSeq(<<>>, 1, 0) = <<>> /\ Len(<<>>) = 0 /\ <<>> \in Seq(AuditEntry)
  OBVIOUS
<1>2. Newest(MaxEntries, <<>>) = <<>>
  BY <1>1, MaxEntriesAssumption DEF Newest
<1>3. QED
  BY <1>1, <1>2 DEF AuditInit, RingInv

LEMMA RingAppends ==
  ASSUME RingInv, NEW e \in AuditEntry, RingAppend(e)
  PROVE  RingInv'
<1>1. appended \in Seq(AuditEntry) /\ log \in Seq(AuditEntry) /\ MaxEntries \in Nat /\ <<e>> \in Seq(AuditEntry)
  BY NewestIs, MaxEntriesAssumption DEF RingInv
<1>2. Append(log, e) = log \o <<e>> /\ Append(appended, e) = appended \o <<e>>
  BY <1>1
<1>3. Newest(MaxEntries, log \o <<e>>) = Newest(MaxEntries, appended \o <<e>>)
  BY <1>1, NewestJoins DEF RingInv
<1>4. QED
  BY <1>1, <1>2, <1>3 DEF RingAppend, RingInv

LEMMA RingAppendsAll ==
  ASSUME RingInv, NEW es \in Seq(AuditEntry), RingAppendAll(es)
  PROVE  RingInv'
<1>1. appended \in Seq(AuditEntry) /\ MaxEntries \in Nat
  BY MaxEntriesAssumption DEF RingInv
<1>2. Newest(MaxEntries, log \o es) = Newest(MaxEntries, appended \o es)
  BY <1>1, NewestJoins DEF RingInv
<1>3. QED
  BY <1>1, <1>2 DEF RingAppendAll, RingInv

(* What /logs reads of the ring.                                           *)
LEMMA RingShows == RingInv => AllEntries(MaxEntries) = Newest(MaxEntries, appended)
<1> SUFFICES ASSUME RingInv PROVE AllEntries(MaxEntries) = Newest(MaxEntries, appended)
  OBVIOUS
<1>1. appended \in Seq(AuditEntry) /\ MaxEntries \in Nat /\ <<>> \in Seq(AuditEntry)
  BY MaxEntriesAssumption DEF RingInv
<1>2. Newest(MaxEntries, Newest(MaxEntries, appended) \o <<>>) = Newest(MaxEntries, appended \o <<>>)
  BY <1>1, NewestJoins
<1>3. Newest(MaxEntries, appended) \in Seq(AuditEntry)
  BY <1>1, NewestIs
<1>4. QED
  BY <1>1, <1>2, <1>3 DEF AllEntries, RingInv
-----------------------------------------------------------------------------
(* The entries about one request, when one more entry is appended.         *)
LEMMA LogsNothing == \A r : LoggedAs(<<>>, r, <<>>)
<1> SUFFICES ASSUME NEW r PROVE LoggedAs(<<>>, r, <<>>)
  OBVIOUS
<1> DEFINE none == <<>>
           places == {i \in DOMAIN none : none[i].req = r}
           at == [i \in {} |-> 0]
<1>1. DOMAIN none = {}
  OBVIOUS
<1> HIDE DEF none
<1>2. places = {} /\ at \in [{} -> places]
  BY <1>1
<1>3. LoggedAs(none, r, none)
  BY <1>1, <1>2 DEF LoggedAs
<1>4. QED
  BY <1>3 DEF none

LEMMA LogsOther ==
  ASSUME NEW S, NEW a \in Seq(S), NEW e \in S, NEW r, e.req # r, NEW these \in Seq(S),
         LoggedAs(a, r, these)
  PROVE  LoggedAs(Append(a, e), r, these)
<1> DEFINE b == Append(a, e)
           places == {i \in DOMAIN a : a[i].req = r}
<1>1. /\ b \in Seq(S) /\ DOMAIN a = 1..Len(a) /\ DOMAIN b = 1..(Len(a) + 1) /\ Len(a) \in Nat
      /\ b[Len(a) + 1] = e /\ \A i \in 1..Len(a) : b[i] = a[i]
  OBVIOUS
<1> HIDE DEF b
<1>2. places = {i \in DOMAIN b : b[i].req = r}
  BY <1>1
<1>3. PICK at \in [DOMAIN these -> places] :
        /\ \A i \in DOMAIN these : a[at[i]] = these[i]
        /\ \A i, j \in DOMAIN these : i < j => at[i] < at[j]
        /\ \A p \in places : \E i \in DOMAIN these : at[i] = p
  BY DEF LoggedAs
<1>4. \A i \in DOMAIN these : b[at[i]] = these[i]
  BY <1>1, <1>3
<1> HIDE DEF places
<1>5. LoggedAs(b, r, these)
  BY <1>2, <1>3, <1>4 DEF LoggedAs
<1>6. QED
  BY <1>5 DEF b

LEMMA LogsOne ==
  ASSUME NEW S, NEW a \in Seq(S), NEW e \in S, NEW r, e.req = r, NEW these \in Seq(S),
         LoggedAs(a, r, these)
  PROVE  LoggedAs(Append(a, e), r, Append(these, e))
<1> DEFINE b == Append(a, e)
           n == Len(a)
           k == Len(these)
           more == Append(these, e)
           places == {i \in DOMAIN a : a[i].req = r}
<1>1. /\ b \in Seq(S) /\ DOMAIN a = 1..n /\ DOMAIN b = 1..(n + 1) /\ n \in Nat
      /\ b[n + 1] = e /\ \A i \in 1..n : b[i] = a[i]
  OBVIOUS
<1>2. /\ DOMAIN these = 1..k /\ DOMAIN more = 1..(k + 1) /\ k \in Nat
      /\ more[k + 1] = e /\ \A i \in 1..k : more[i] = these[i]
  OBVIOUS
<1>3. PICK at \in [DOMAIN these -> places] :
        /\ \A i \in DOMAIN these : a[at[i]] = these[i]
        /\ \A i, j \in DOMAIN these : i < j => at[i] < at[j]
        /\ \A p \in places : \E i \in DOMAIN these : at[i] = p
  BY DEF LoggedAs
<1> HIDE DEF b, n, k, more
<1> DEFINE to == [i \in 1..(k + 1) |-> IF i = k + 1 THEN n + 1 ELSE at[i]]
           there == {i \in DOMAIN b : b[i].req = r}
<1>4. \A i \in 1..k : at[i] \in 1..n /\ at[i] \in places
  BY <1>1, <1>2, <1>3
<1>5. there = places \cup {n + 1}
  BY <1>1
<1>6. to[k + 1] = n + 1 /\ \A i \in 1..k : to[i] = at[i]
  BY <1>2
<1>7. \A i \in 1..(k + 1) : i \in 1..k \/ i = k + 1
  BY <1>2
<1>8. to \in [DOMAIN more -> there]
  BY <1>2, <1>4, <1>5, <1>7
<1> HIDE DEF to, there, places
<1>9. \A i \in DOMAIN more : b[to[i]] = more[i]
  BY <1>1, <1>2, <1>3, <1>4, <1>6, <1>7
<1>10. \A i, j \in DOMAIN more : i < j => to[i] < to[j]
  <2> SUFFICES ASSUME NEW i \in 1..(k + 1), NEW j \in 1..(k + 1), i < j PROVE to[i] < to[j]
    BY <1>2
  <2>1. i \in 1..k
    BY <1>2
  <2>2. CASE j = k + 1
    BY <1>1, <1>4, <1>6, <2>1, <2>2
  <2>3. CASE j \in 1..k
    BY <1>2, <1>3, <1>6, <2>1, <2>3
  <2>4. QED
    BY <1>7, <2>2, <2>3
<1>11. \A p \in there : \E i \in DOMAIN more : to[i] = p
  <2> SUFFICES ASSUME NEW p \in there PROVE \E i \in DOMAIN more : to[i] = p
    OBVIOUS
  <2>1. k + 1 \in DOMAIN more /\ \A i \in 1..k : i \in DOMAIN more
    BY <1>2
  <2>2. CASE p = n + 1
    BY <1>6, <2>1, <2>2
  <2>3. CASE p \in places
    BY <1>2, <1>3, <1>6, <2>1, <2>3
  <2>4. QED
    BY <1>5, <2>2, <2>3
<1>12. LoggedAs(b, r, more)
  BY <1>8, <1>9, <1>10, <1>11 DEF LoggedAs, there
<1>13. QED
  BY <1>12 DEF b, more
-----------------------------------------------------------------------------
(* Whose handler a request is at: the one its door let it through to.      *)
Deciding == {"propose", "from_message", "approve", "reject"} \cup AdminPosts
Own(r) ==
  /\ ing[r].at # "idle" => door[r] = "ingest"
  /\ job[r].at # "idle" => door[r] \in Deciding
  /\ call[r].at # "idle" => door[r] = "execute"
OwnInv == \A r \in Requests : Own(r)

LEMMA InitOwn == Init => OwnInv
<1>1. Blank.at = "idle" /\ NoJob.at = "idle" /\ NoCall.at = "idle"
  BY DEF Blank, NoJob, NoCall
<1>2. QED
  BY <1>1 DEF Init, IngestInit, IntakeInit, CallInit, OwnInv, Own

LEMMA IngestIsOwn ==
  ASSUME CloudInv, OwnInv, NEW r \in Requests, IngestStep(r)
  PROVE  door[r] = "ingest" /\ \A x \in Requests \ {r} : ing'[x] = ing[x]
<1>1. door[r] = "ingest"
  BY DEF OwnInv, Own, IngestStep, Ingest, ClassifierFails, ClassifierAnswers, ModelAnswerRaises, LaneAnswers
<1>2. \A x \in Requests \ {r} : ing'[x] = ing[x]
  BY DEF CloudInv, IngestType, IngestStep, Ingest, ClassifierFails, ClassifierAnswers, Dispatch,
         CloudRoute, Settle, Await, ModelAnswerRaises, LaneAnswers
<1>3. QED
  BY <1>1, <1>2

LEMMA IntakeIsOwn ==
  ASSUME SoundInv, OwnInv, NEW r \in Requests, IntakeStep(r)
  PROVE  door[r] \in Deciding /\ \A x \in Requests \ {r} : job'[x] = job[x]
<1>1. ASSUME NEW id, NEW agent, NEW text, NEW heard, Build(r, id, agent, text, heard)
      PROVE  \A x \in Requests \ {r} : job'[x] = job[x]
  BY <1>1 DEF SoundInv, Build, ProposeBody, AnswerOnly, AnswerWith
<1>2. ASSUME NEW id \in PlanIds, NEW plan \in Drafts, ProposeDraft(r, id, plan)
      PROVE  door[r] \in Deciding /\ \A x \in Requests \ {r} : job'[x] = job[x]
  BY <1>2 DEF SoundInv, Deciding, ProposeDraft, ProposeBody, AnswerWith
<1>3. ASSUME NEW id \in PlanIds, NEW text \in Messages, NEW a \in AgentNames,
             FromMessageManual(r, id, a, text)
      PROVE  door[r] \in Deciding /\ \A x \in Requests \ {r} : job'[x] = job[x]
  BY <1>1, <1>3 DEF Deciding, FromMessageManual
<1>4. ASSUME NEW id \in PlanIds, NEW text \in Messages, FromMessageRouted(r, id, text)
      PROVE  door[r] \in Deciding /\ \A x \in Requests \ {r} : job'[x] = job[x]
  BY <1>4 DEF SoundInv, Deciding, FromMessageRouted, AnswerWith
<1>5. ASSUME NEW id \in PlanIds, Decide(r, id)
      PROVE  door[r] \in Deciding /\ \A x \in Requests \ {r} : job'[x] = job[x]
  BY <1>5 DEF SoundInv, Deciding, Decide, AnswerWith
<1>6. ASSUME NEW heard \in RouterAnswers, RouterAnswered(r, heard)
      PROVE  door[r] \in Deciding /\ \A x \in Requests \ {r} : job'[x] = job[x]
  BY <1>1, <1>6 DEF SoundInv, OwnInv, Own, RouterAnswered, AnswerOnly, AnswerWith
<1>7. CASE RefuseMalformed(r) \/ DecideFails(r) \/ RegistryChanges(r)
  BY <1>7 DEF SoundInv, Deciding, RefuseMalformed, DecideFails, RegistryChanges, AnswerOnly, AnswerWith
<1>8. CASE RouterFails(r) \/ SavePending(r) \/ SaveTimesOut(r) \/ SaveFails(r) \/ FinishPropose(r)
            \/ CloseDecision(r)
  BY <1>8 DEF SoundInv, OwnInv, Own, RouterFails, SavePending, SaveTimesOut, SaveFails,
              FinishPropose, CloseDecision, AnswerOnly, AnswerWith
<1>9. QED
  BY <1>2, <1>3, <1>4, <1>5, <1>6, <1>7, <1>8 DEF IntakeStep

LEMMA ExecuteIsOwn ==
  ASSUME CallInv, OwnInv, NEW r \in Requests, Executing(r)
  PROVE  door[r] = "execute" /\ \A x \in Requests \ {r} : call'[x] = call[x]
  BY DEF CallInv, OwnInv, Own, Executing, ExecuteStarts, ExecuteEnds, StartCall, Collect, Drain,
         Answer, Timeout, DrainTimesOut

LEMMA NextOwn ==
  DoorInv /\ CloudInv /\ SoundInv /\ CallInv /\ OwnInv /\ [Next]_gatewayVars => OwnInv'
<1> SUFFICES ASSUME DoorInv, CloudInv, SoundInv, CallInv, OwnInv, [Next]_gatewayVars PROVE OwnInv'
  OBVIOUS
<1>1. ASSUME NEW r \in Requests, Door(r) PROVE OwnInv'
  <2>1. door[r] \notin {"ingest", "execute"} \cup Deciding /\ \A x \in Requests \ {r} : door'[x] = door[x]
    BY <1>1 DEF DoorInv, AuthType, Door, Arrive, Serve, Deciding
  <2>2. UNCHANGED <<ing, job, call>>
    BY <1>1 DEF Door, ingestVars, intakeVars, callVars
  <2>3. ing[r].at = "idle" /\ job[r].at = "idle" /\ call[r].at = "idle"
    BY <2>1 DEF OwnInv, Own
  <2>4. QED
    BY <2>1, <2>2, <2>3 DEF OwnInv, Own
<1>2. ASSUME NEW r \in Requests, Ingesting(r) PROVE OwnInv'
  <2>1. UNCHANGED <<door, job, call>>
    BY <1>2 DEF Ingesting, authVars, intakeVars, callVars
  <2>2. QED
    BY <1>2, <2>1, IngestIsOwn DEF Ingesting, OwnInv, Own
<1>3. ASSUME NEW r \in Requests, Planning(r) PROVE OwnInv'
  <2>1. UNCHANGED <<door, ing, call>>
    BY <1>3 DEF Planning, authVars, ingestVars, callVars
  <2>2. QED
    BY <1>3, <2>1, IntakeIsOwn DEF Planning, OwnInv, Own
<1>4. ASSUME NEW r \in Requests, Executing(r) PROVE OwnInv'
  <2>1. UNCHANGED <<door, ing, job>>
    BY <1>4 DEF Executing, authVars, ingestVars, intakeVars
  <2>2. QED
    BY <1>4, <2>1, ExecuteIsOwn DEF OwnInv, Own
<1>5. CASE UNCHANGED <<door, ing, job, call>>
  BY <1>5 DEF OwnInv, Own
<1>6. ASSUME NEW r \in Requests, Working(r) PROVE OwnInv'
  <2>1. call' = call
    BY <1>6 DEF Working, Accept, WorkerStep, Boot, RunUnknown, ToolRefuses, RunFileTool, StartWalk, Request,
       SearchAnswered, AddPosts, AddGivesUp, ActAnswered, ActFails, WalkFile, WalkEnds, WorkerDies,
       callVars
  <2>2. QED
    BY <1>5, <1>6, <2>1 DEF Working, authVars, ingestVars, intakeVars
<1>7. QED
  BY <1>1, <1>2, <1>3, <1>4, <1>5, <1>6, Steps
  DEF Editing, gatewayVars, authVars, ingestVars, intakeVars, callVars
-----------------------------------------------------------------------------
(* What an ingest request has in the log, by its stage.                    *)
Due(j, r) ==
  LET arrival == Entry(ArrivalKind(j.env), r, NoLane)
      outcome == Entry(OutcomeKind(j.lane), r, j.lane)
  IN  CASE j.at \in {"idle", "unprocessable"} -> <<>>
        [] j.at = "answered" -> <<arrival, outcome>>
        [] OTHER -> <<arrival>>
Logged(r) == door[r] \in {"idle", "ingest"} => LoggedAs(appended, r, Due(ing[r], r))
LogInv == RingInv /\ \A r \in Requests : Logged(r)

LEMMA EntryTyped ==
  ASSUME NEW r \in Requests
  PROVE  /\ \A kind \in {"plan", "lifecycle"} : Entry(kind, r, NoLane) \in AuditEntry
         /\ \A env : Entry(ArrivalKind(env), r, NoLane) \in AuditEntry
         /\ \A lane \in Lanes \cup {NoLane} : Entry(OutcomeKind(lane), r, lane) \in AuditEntry
         /\ \A kind, lane : Entry(kind, r, lane).req = r
  BY DEF Entry, AuditEntry, ArrivalKind, OutcomeKind

LEMMA DueTyped ==
  ASSUME NEW r \in Requests, NEW j \in IngestJob
  PROVE  Due(j, r) \in Seq(AuditEntry)
<1> DEFINE arrival == Entry(ArrivalKind(j.env), r, NoLane)
           outcome == Entry(OutcomeKind(j.lane), r, j.lane)
<1>1. arrival \in AuditEntry /\ outcome \in AuditEntry
  BY EntryTyped DEF IngestJob
<1> HIDE DEF arrival, outcome
<1>2. /\ <<>> \in Seq(AuditEntry) /\ <<arrival>> \in Seq(AuditEntry)
      /\ <<arrival, outcome>> \in Seq(AuditEntry)
  BY <1>1
<1>3. QED
  BY <1>2 DEF Due, arrival, outcome

LEMMA InitLog == Init => LogInv
<1> SUFFICES ASSUME Init PROVE LogInv
  OBVIOUS
<1>1. RingInv
  BY InitRing DEF Init
<1>2. appended = <<>> /\ \A r \in Requests : ing[r] = Blank
  BY DEF Init, AuditInit, IngestInit
<1>3. \A r : Due(Blank, r) = <<>>
  BY DEF Due, Blank
<1>4. \A r \in Requests : Logged(r)
  BY <1>2, <1>3, LogsNothing DEF Logged
<1>5. QED
  BY <1>1, <1>4 DEF LogInv

(* An entry about r, appended by a handler that is not ingest's.           *)
LEMMA OtherLogs ==
  ASSUME CloudInv, LogInv, NEW r \in Requests, door[r] \notin {"idle", "ingest"},
         NEW e \in AuditEntry, e.req = r, UNCHANGED <<door, ing>>,
         RingAppend(e) \/ RingAppendAll(<<e, e>>) \/ UNCHANGED auditVars
  PROVE  LogInv'
<1>1. appended \in Seq(AuditEntry)
  BY DEF LogInv, RingInv
<1>2. CASE UNCHANGED auditVars
  BY <1>2 DEF auditVars, LogInv, RingInv, Logged
<1>3. ASSUME NEW x \in Requests, door[x] \in {"idle", "ingest"}
      PROVE  LoggedAs(Append(appended, e), x, Due(ing[x], x))
  <2>1. ing[x] \in IngestJob
    BY DEF CloudInv, IngestType, IngestJob
  <2>2. LoggedAs(appended, x, Due(ing[x], x))
    BY <1>3 DEF LogInv, Logged
  <2>3. e.req # x
    BY <1>3
  <2>4. QED
    BY <1>1, <2>1, <2>2, <2>3, DueTyped, LogsOther
<1>4. CASE RingAppend(e)
  <2>1. \A x \in Requests : door'[x] \in {"idle", "ingest"} => LoggedAs(appended', x, Due(ing'[x], x))
    BY <1>3, <1>4 DEF RingAppend
  <2>2. (\A x \in Requests : Logged(x))'
    BY <2>1 DEF Logged
  <2>3. QED
    BY <1>4, <2>2, RingAppends DEF LogInv
<1>5. CASE RingAppendAll(<<e, e>>)
  <2>1. <<e, e>> \in Seq(AuditEntry) /\ appended \o <<e, e>> = Append(Append(appended, e), e)
    BY <1>1
  <2>2. ASSUME NEW x \in Requests, door[x] \in {"idle", "ingest"}
        PROVE  LoggedAs(Append(Append(appended, e), e), x, Due(ing[x], x))
    <3>1. ing[x] \in IngestJob
      BY DEF CloudInv, IngestType, IngestJob
    <3>2. Append(appended, e) \in Seq(AuditEntry) /\ e.req # x
      BY <1>1, <2>2
    <3>3. QED
      BY <1>3, <2>2, <3>1, <3>2, DueTyped, LogsOther
  <2>3. \A x \in Requests : door'[x] \in {"idle", "ingest"} => LoggedAs(appended', x, Due(ing'[x], x))
    BY <1>5, <2>1, <2>2 DEF RingAppendAll
  <2>4. (\A x \in Requests : Logged(x))'
    BY <2>3 DEF Logged
  <2>5. QED
    BY <1>5, <2>1, <2>4, RingAppendsAll DEF LogInv
<1>6. QED
  BY <1>2, <1>4, <1>5

(* A step of the ingest handler of r: it appends nothing and owes what it  *)
(* owed, or appends what it then owes besides.                             *)
LEMMA IngestLogs ==
  ASSUME CloudInv, LogInv, NEW r \in Requests, door[r] = "ingest", door' = door,
         NEW j \in IngestJob, ing' = [ing EXCEPT ![r] = j],
         \/ UNCHANGED auditVars /\ Due(j, r) = Due(ing[r], r)
         \/ \E e \in AuditEntry : e.req = r /\ RingAppend(e) /\ Due(j, r) = Append(Due(ing[r], r), e)
  PROVE  LogInv'
<1>1. appended \in Seq(AuditEntry) /\ ing[r] \in IngestJob /\ LoggedAs(appended, r, Due(ing[r], r))
  BY DEF LogInv, RingInv, Logged, CloudInv, IngestType, IngestJob
<1>2. ing'[r] = j /\ \A x \in Requests \ {r} : ing'[x] = ing[x]
  BY DEF CloudInv, IngestType
<1>3. CASE UNCHANGED auditVars /\ Due(j, r) = Due(ing[r], r)
  <2>1. \A x \in Requests : door'[x] \in {"idle", "ingest"} => LoggedAs(appended', x, Due(ing'[x], x))
    BY <1>1, <1>2, <1>3 DEF auditVars, LogInv, Logged
  <2>2. (\A x \in Requests : Logged(x))'
    BY <2>1 DEF Logged
  <2>3. RingInv'
    BY <1>3 DEF auditVars, LogInv, RingInv
  <2>4. QED
    BY <2>2, <2>3 DEF LogInv
<1>4. ASSUME NEW e \in AuditEntry, e.req = r, RingAppend(e), Due(j, r) = Append(Due(ing[r], r), e)
      PROVE  LogInv'
  <2>1. LoggedAs(Append(appended, e), r, Due(j, r))
    BY <1>1, <1>4, DueTyped, LogsOne
  <2>2. ASSUME NEW x \in Requests \ {r}, door[x] \in {"idle", "ingest"}
        PROVE  LoggedAs(Append(appended, e), x, Due(ing[x], x))
    <3>1. ing[x] \in IngestJob /\ LoggedAs(appended, x, Due(ing[x], x)) /\ e.req # x
      BY <1>4, <2>2 DEF LogInv, Logged, CloudInv, IngestType, IngestJob
    <3>2. QED
      BY <1>1, <3>1, DueTyped, LogsOther
  <2>3. \A x \in Requests : door'[x] \in {"idle", "ingest"} => LoggedAs(appended', x, Due(ing'[x], x))
    BY <1>2, <1>4, <2>1, <2>2 DEF RingAppend
  <2>4. (\A x \in Requests : Logged(x))'
    BY <2>3 DEF Logged
  <2>5. RingInv'
    BY <1>4, RingAppends DEF LogInv
  <2>6. QED
    BY <2>4, <2>5 DEF LogInv
<1>5. QED
  BY <1>3, <1>4

(* An answer adds its outcome to the arrival of the request.               *)
LEMMA SettleLogs ==
  ASSUME CloudInv, LogInv, NEW r \in Requests, door[r] = "ingest", door' = door,
         ing[r].at \in {"classifying", "local_llm", "cloud_llm"},
         NEW lane \in Lanes \cup {NoLane}, NEW out \in Outcomes, NEW named \in SUBSET Lanes,
         Settle(r, lane, out, named)
  PROVE  LogInv'
<1> DEFINE j == [ing[r] EXCEPT !.at = "answered", !.lane = lane, !.named = named,
                               !.out = out, !.fail = ClassifyFailure(lane, out)]
           e == Entry(OutcomeKind(lane), r, lane)
<1>1. ing[r] \in IngestJob /\ ClassifyFailure(lane, out) \in Reasons
  BY FailureTyped DEF CloudInv, IngestType, IngestJob
<1>2. j \in IngestJob /\ j.at = "answered" /\ j.lane = lane /\ j.env = ing[r].env
  BY <1>1 DEF IngestJob
<1>3. ing' = [ing EXCEPT ![r] = j] /\ RingAppend(e)
  BY DEF Settle
<1>4. e \in AuditEntry /\ e.req = r
  BY EntryTyped
<1> HIDE DEF j
<1>5. Due(ing[r], r) = <<Entry(ArrivalKind(ing[r].env), r, NoLane)>>
  BY DEF Due
<1>6. Due(j, r) = <<Entry(ArrivalKind(ing[r].env), r, NoLane), e>>
  BY <1>2 DEF Due
<1> HIDE DEF e
<1>7. Due(j, r) = Append(Due(ing[r], r), e)
  BY <1>5, <1>6
<1>8. QED
  BY <1>2, <1>3, <1>4, <1>7, IngestLogs

(* A request that waits, or fails, after its arrival owes nothing more.    *)
LEMMA WaitLogs ==
  ASSUME CloudInv, LogInv, NEW r \in Requests, door[r] = "ingest", door' = door,
         ing[r].at \in {"classifying", "local_llm", "cloud_llm"},
         NEW j \in IngestJob, j.env = ing[r].env, j.at \in {"local_llm", "cloud_llm", "bad_gateway"},
         ing' = [ing EXCEPT ![r] = j], UNCHANGED auditVars
  PROVE  LogInv'
<1>1. Due(j, r) = Due(ing[r], r)
  BY DEF Due
<1>2. QED
  BY <1>1, IngestLogs

LEMMA AwaitLogs ==
  ASSUME CloudInv, LogInv, NEW r \in Requests, door[r] = "ingest", door' = door,
         ing[r].at = "classifying", NEW lane \in Lanes, NEW named \in SUBSET Lanes,
         NEW stage \in {"local_llm", "cloud_llm"}, Await(r, stage, lane, named)
  PROVE  LogInv'
<1> DEFINE j == [ing[r] EXCEPT !.at = stage, !.lane = lane, !.named = named]
<1>1. ing[r] \in IngestJob
  BY DEF CloudInv, IngestType, IngestJob
<1>2. j \in IngestJob /\ j.at = stage /\ j.env = ing[r].env
  BY <1>1 DEF IngestJob
<1>3. ing' = [ing EXCEPT ![r] = j] /\ UNCHANGED auditVars
  BY DEF Await
<1> HIDE DEF j
<1>4. QED
  BY <1>2, <1>3, WaitLogs

LEMMA IngestStepLogs ==
  ASSUME CloudInv, OwnInv, LogInv, NEW r \in Requests, IngestStep(r), door' = door
  PROVE  LogInv'
<1>d. door[r] = "ingest"
  BY IngestIsOwn
<1>t. ing[r] \in IngestJob
  BY DEF CloudInv, IngestType, IngestJob
<1>1. ASSUME NEW env \in Envelopes, Ingest(r, env) PROVE LogInv'
  <2> DEFINE j == [Blank EXCEPT !.at = "classifying", !.env = env]
             k == [ing[r] EXCEPT !.at = "unprocessable"]
             e == Entry(ArrivalKind(env), r, NoLane)
  <2>1. j \in IngestJob /\ j.at = "classifying" /\ j.env = env
    BY IngestAssumption DEF Blank, IngestJob, Outcomes, Reasons
  <2>2. k \in IngestJob /\ k.at = "unprocessable"
    BY <1>t DEF IngestJob
  <2>3. e \in AuditEntry /\ e.req = r
    BY EntryTyped
  <2>4. Due(ing[r], r) = <<>>
    BY <1>1 DEF Due, Ingest
  <2>5. \/ ing' = [ing EXCEPT ![r] = j] /\ RingAppend(e)
        \/ ing' = [ing EXCEPT ![r] = k] /\ UNCHANGED auditVars
    BY <1>1 DEF Ingest
  <2> HIDE DEF j, k
  <2>6. Due(j, r) = <<e>> /\ Due(k, r) = <<>>
    BY <2>1, <2>2 DEF Due
  <2> HIDE DEF e
  <2>7. Due(j, r) = Append(Due(ing[r], r), e)
    BY <2>4, <2>6
  <2>8. QED
    BY <1>d, <2>1, <2>2, <2>3, <2>4, <2>5, <2>6, <2>7, IngestLogs
<1>2. CASE ClassifierFails(r)
  BY <1>2, <1>d, SettleLogs DEF ClassifierFails, Lanes, Outcomes
<1>3. ASSUME NEW named \in Namings, ClassifierAnswers(r, named) PROVE LogInv'
  <2>1. named \in SUBSET Lanes /\ ing[r].at = "classifying"
    BY <1>3, IngestAssumption DEF ClassifierAnswers
  <2>2. PICK lane \in ExtractToken(named) : Dispatch(r, lane, named)
    BY <1>3 DEF ClassifierAnswers
  <2>3. lane \in Lanes
    BY <2>1, <2>2 DEF ExtractToken, Lanes
  <2>4. CASE lane \in {"LOCAL_TOOLS", "DROP"} /\ Settle(r, lane, "settled", named)
    BY <1>d, <2>1, <2>3, <2>4, SettleLogs DEF Outcomes
  <2>5. CASE lane = "LOCAL_LLM" /\ Await(r, "local_llm", lane, named)
    BY <1>d, <2>1, <2>3, <2>5, AwaitLogs
  <2>6. CASE lane = "CLOUD_LLM" /\ CloudRoute(r, named)
    BY <1>d, <2>1, <2>3, <2>6, SettleLogs, AwaitLogs DEF CloudRoute, Outcomes
  <2>7. QED
    BY <2>2, <2>4, <2>5, <2>6 DEF Dispatch
<1>4. CASE ModelAnswerRaises(r)
  <2> DEFINE j == [ing[r] EXCEPT !.at = "bad_gateway"]
  <2>1. j \in IngestJob /\ j.at = "bad_gateway" /\ j.env = ing[r].env
    BY <1>t DEF IngestJob
  <2>2. /\ ing' = [ing EXCEPT ![r] = j] /\ UNCHANGED auditVars
        /\ ing[r].at \in {"classifying", "local_llm", "cloud_llm"}
    BY <1>4 DEF ModelAnswerRaises
  <2> HIDE DEF j
  <2>3. QED
    BY <1>d, <2>1, <2>2, WaitLogs
<1>5. ASSUME NEW out \in Outcomes, LaneAnswers(r, out) PROVE LogInv'
  BY <1>5, <1>d, <1>t, SettleLogs DEF LaneAnswers, IngestJob
<1>6. QED
  BY <1>1, <1>2, <1>3, <1>4, <1>5 DEF IngestStep, Outcomes

LEMMA IntakeStepLogs ==
  ASSUME NEW r \in Requests, IntakeStep(r)
  PROVE  \E e \in AuditEntry : e.req = r /\ (RingAppend(e) \/ RingAppendAll(<<e, e>>) \/ UNCHANGED auditVars)
<1>1. ASSUME NEW kind \in {"plan", "lifecycle"}
      PROVE  Entry(kind, r, NoLane) \in AuditEntry /\ Entry(kind, r, NoLane).req = r
  BY <1>1, EntryTyped
<1>2. CASE UNCHANGED auditVars
  BY <1>1, <1>2
<1>3. ASSUME NEW id, NEW agent, NEW text, NEW heard, Build(r, id, agent, text, heard)
      PROVE  UNCHANGED auditVars
  BY <1>3 DEF Build, ProposeBody, AnswerOnly
<1>4. CASE FinishPropose(r)
  BY <1>1, <1>4 DEF FinishPropose
<1>5. CASE CloseDecision(r)
  BY <1>1, <1>5 DEF CloseDecision
<1>6. CASE RegistryChanges(r)
  BY <1>1, <1>6 DEF RegistryChanges, AnswerOnly
<1>7. ASSUME NEW id, NEW text, \E a \in AgentNames : FromMessageManual(r, id, a, text)
      PROVE  UNCHANGED auditVars
  BY <1>3, <1>7 DEF FromMessageManual
<1>8. ASSUME NEW heard, RouterAnswered(r, heard) PROVE UNCHANGED auditVars
  BY <1>3, <1>8 DEF RouterAnswered, AnswerOnly
<1>9. QED
  BY <1>2, <1>4, <1>5, <1>6, <1>7, <1>8
  DEF IntakeStep, ProposeDraft, ProposeBody, FromMessageRouted, Decide, RefuseMalformed,
      RouterFails, SavePending, SaveTimesOut, SaveFails, DecideFails, AnswerOnly

LEMMA NextLog ==
  DoorInv /\ CloudInv /\ SoundInv /\ CallInv /\ OwnInv /\ LogInv /\ [Next]_gatewayVars => LogInv'
<1> SUFFICES ASSUME DoorInv, CloudInv, SoundInv, CallInv, OwnInv, LogInv, [Next]_gatewayVars
             PROVE  LogInv'
  OBVIOUS
<1>1. ASSUME NEW r \in Requests, Door(r) PROVE LogInv'
  <2>1. UNCHANGED <<log, appended, ing>>
    BY <1>1 DEF Door, auditVars, ingestVars
  <2>2. \A x \in Requests : door'[x] \in {"idle", "ingest"} => door[x] \in {"idle", "ingest"}
    BY <1>1 DEF DoorInv, AuthType, Door, Arrive, Serve
  <2>3. \A x \in Requests : door'[x] \in {"idle", "ingest"} => LoggedAs(appended', x, Due(ing'[x], x))
    BY <2>1, <2>2 DEF LogInv, Logged
  <2>4. (\A x \in Requests : Logged(x))'
    BY <2>3 DEF Logged
  <2>5. QED
    BY <2>1, <2>4 DEF LogInv, RingInv
<1>2. ASSUME NEW r \in Requests, Ingesting(r) PROVE LogInv'
  BY <1>2, IngestStepLogs DEF Ingesting, authVars
<1>3. ASSUME NEW r \in Requests, Planning(r) PROVE LogInv'
  <2>1. door[r] \notin {"idle", "ingest"}
    BY <1>3, IntakeIsOwn DEF Planning, Deciding
  <2>2. UNCHANGED <<door, ing>>
    BY <1>3 DEF Planning, authVars, ingestVars
  <2>3. QED
    BY <1>3, <2>1, <2>2, IntakeStepLogs, OtherLogs DEF Planning
<1>4. ASSUME NEW r \in Requests, Executing(r) PROVE LogInv'
  <2> DEFINE e == Entry("plan", r, NoLane)
  <2>1. door[r] \notin {"idle", "ingest"}
    BY <1>4, ExecuteIsOwn
  <2>2. UNCHANGED <<door, ing>>
    BY <1>4 DEF Executing, authVars, ingestVars
  <2>3. RingAppend(e) \/ RingAppendAll(<<e, e>>) \/ UNCHANGED auditVars
    BY <1>4 DEF Executing, ExecuteStarts, ExecuteEnds
  <2>4. e \in AuditEntry /\ e.req = r
    BY EntryTyped
  <2> HIDE DEF e
  <2>5. QED
    BY <2>1, <2>2, <2>3, <2>4, OtherLogs
<1>5. CASE UNCHANGED <<door, ing, log, appended>>
  BY <1>5 DEF LogInv, RingInv, Logged
<1>6. QED
  BY <1>1, <1>2, <1>3, <1>4, <1>5, Steps
  DEF Working, Editing, gatewayVars, authVars, auditVars, ingestVars

(* What the log has of an ingest request is what its sender was told, for  *)
(* any requests and inputs, any other traffic and any length of the ring,  *)
(* which shows the newest entries, whole and in order.                     *)
THEOREM LogTellsTheAnswer == Spec => []AnsweredIsLogged
<1>1. ASSUME LogInv PROVE AnsweredIsLogged
  <2>1. AllEntries(MaxEntries) = Newest(MaxEntries, appended)
    BY <1>1, RingShows DEF LogInv
  <2>2. \A r \in Requests : door[r] = "ingest" => LoggedAs(appended, r, Due(ing[r], r))
    BY <1>1 DEF LogInv, Logged
  <2>3. QED
    BY <2>1, <2>2, Zenon DEF AnsweredIsLogged, Due
<1>2. QED
  BY InitDoor, NextDoor, InitCloud, NextCloud, InitSound, NextSound, InitCalls, NextCalls,
     InitOwn, NextOwn, InitLog, NextLog, <1>1, PTL DEF Spec
-----------------------------------------------------------------------------
(* Every variable of the gateway keeps its type, the audit ring its length *)
(* and the asked addresses theirs, for any requests, keys, plans, tools,   *)
(* services and traffic.                                                   *)
THEOREM GatewayTyped == Spec => []TypeOK
<1>1. Init => ScanInv /\ ActiveTyped
  BY InitScan DEF Init, IntakeInit, ActiveTyped
<1>2. ASSUME TellInv, ActiveTyped PROVE IntakeType
  BY <1>2 DEF TellInv, SoundInv, Announced, ActiveTyped, IntakeJob, IntakeType
<1>3. ASSUME CallInv, AskInv PROVE CallType
  <2>1. call \in [Requests -> CallRec] /\ worker \in [Requests -> WorkerRec]
    BY <1>3 DEF CallInv
  <2>2. ASSUME NEW r \in Requests
        PROVE  /\ call[r].at \in {"idle", "running", "draining", "answered", "raised"}
               /\ call[r].what \in Calls \cup {NoArgs} /\ call[r].result \in Result
               /\ worker[r].at \in Live \cup {"none", "exited", "crashed", "killed"}
               /\ worker[r].env \in [Services -> Address \cup {NoUrl}]
               /\ worker[r].cfg \in Address \cup {NoUrl} /\ worker[r].ok \in BOOLEAN
    BY <2>1, ToolCallAssumption DEF CallRec, WorkerRec
  <2>3. QED
    BY <1>3, <2>2 DEF CallInv, AskInv, CallType, Result
<1>4. ASSUME LogInv PROVE AuditType
  <2>1. appended \in Seq(AuditEntry) /\ MaxEntries \in Nat
    BY <1>4, MaxEntriesAssumption DEF LogInv, RingInv
  <2>2. Newest(MaxEntries, appended) \in Seq(AuditEntry) /\ Len(Newest(MaxEntries, appended)) <= MaxEntries
    BY <2>1, NewestIs
  <2>3. QED
    BY <1>4, <2>1, <2>2 DEF LogInv, RingInv, AuditType
<1>5. DoorInv /\ CloudInv /\ TellInv /\ CallInv /\ AskInv /\ ScanInv /\ ActiveTyped /\ LogInv => TypeOK
  BY <1>2, <1>3, <1>4, ScanIsTyped DEF DoorInv, CloudInv, TypeOK
<1>6. TellInv => SoundInv
  BY DEF TellInv
<1>7. QED
  BY InitDoor, NextDoor, InitCloud, NextCloud, InitTell, NextTell, InitCalls, NextCalls, InitAsk,
     NextAsk, NextScan, NextActive, InitOwn, NextOwn, InitLog, NextLog, <1>1, <1>5, <1>6, PTL DEF Spec
=============================================================================
