------------------------------- MODULE IngestPath -------------------------------
(***************************************************************************)
(* POST /ingest: normalise, classify with the local model, dispatch to a   *)
(* lane, answer.  The handler is suspended at its model calls only, so     *)
(* what lies between two of them is one step.  Content is abstracted to    *)
(* whether a sensitive pattern matches it, a model's output to the lanes   *)
(* it names, a reply to what the failure taxonomy tells apart.             *)
(***************************************************************************)
EXTENDS RequestAuth, AuditLog

CONSTANTS
  Envelopes,           (* bound: the inputs requests bring                   *)
  Namings,             (* bound: the sets of lanes a classifier output names *)
  CloudKey,            (* OPENROUTER_API_KEY is set                          *)
  CloudAllowSensitive  (* CLOUD_ALLOW_SENSITIVE                              *)

Lanes      == {"LOCAL_TOOLS", "LOCAL_LLM", "CLOUD_LLM", "DROP"}
Modalities == {"text", "image", "voice", "event"}
Reasons    == {"none", "MISSING_CAPABILITY", "REASONING_LIMIT", "KNOWLEDGE_GAP",
               "EXECUTION_ERROR"}
(* What a lane came back with: a reply (null: a JSON null as its content), *)
(* an httpx error (capacity: its text mentions a timeout or a full         *)
(* context), an early return, or nothing to wait for.                      *)
Outcomes   == {"good", "weak", "blank", "null", "capacity", "error",
               "blocked", "unset", "settled"}

(* IngestRequest: formed is what the structure check of its modality asks; *)
(* content, meta and source (source_device) say whether a sensitive        *)
(* pattern occurs in them.                                                 *)
Envelope == [modality : Modalities, formed : BOOLEAN, content : BOOLEAN,
             meta : BOOLEAN, source : BOOLEAN]

ASSUME IngestAssumption ==
  /\ Envelopes \subseteq Envelope /\ Namings \subseteq SUBSET Lanes
  /\ CloudKey \in BOOLEAN /\ CloudAllowSensitive \in BOOLEAN
  /\ NoLane \notin Lanes

VARIABLES
  ing,  (* ing[r]: stage, input and result of the ingest request r           *)
  sent  (* history: the requests whose message went to the cloud model       *)

ingestVars == <<ing, sent>>

Stages == {"idle", "classifying", "local_llm", "cloud_llm",
           "answered", "unprocessable", "bad_gateway"}

IngestType ==
  /\ ing \in [Requests -> [at : Stages, env : Envelope, named : SUBSET Lanes,
                           lane : Lanes \cup {NoLane}, out : Outcomes, fail : Reasons]]
  /\ sent \subseteq Requests

Blank == [at |-> "idle", named |-> {}, lane |-> NoLane, out |-> "settled", fail |-> "none",
          env |-> [modality |-> "text", formed |-> FALSE, content |-> FALSE,
                    meta |-> FALSE, source |-> FALSE]]
-----------------------------------------------------------------------------
(* _extract_token: an exact token is one that names itself only; among     *)
(* several named ones a frozenset of strings is scanned, in an order that  *)
(* changes with every start of the process.                                *)
ExtractToken(named) == IF named = {} THEN {"DROP"} ELSE named

(* _envelope_to_user_message and the scan of what it made: a text is its   *)
(* content; the others name the device they came from, an event beside its *)
(* content, an image and a voice beside their metadata.                    *)
MessageIsSensitive(env) ==
  \/ env.modality # "text" /\ env.source
  \/ IF env.modality \in {"text", "event"} THEN env.content ELSE env.meta

(* classify_failure: weak replies count for the local model only, a null   *)
(* reply for none.                                                         *)
ClassifyFailure(lane, out) ==
  CASE lane = "DROP" -> "MISSING_CAPABILITY"
    [] lane = "LOCAL_LLM" /\ out \in {"capacity", "weak", "blank"} -> "REASONING_LIMIT"
    [] lane = "LOCAL_LLM" /\ out = "error"                         -> "EXECUTION_ERROR"
    [] lane = "CLOUD_LLM" /\ out \in {"blocked", "blank"}          -> "KNOWLEDGE_GAP"
    [] lane = "CLOUD_LLM" /\ out \in {"capacity", "error", "unset"} -> "EXECUTION_ERROR"
    [] OTHER -> "none"

ArrivalKind(env)  == IF env.modality = "event" THEN "event" ELSE "ingest"
OutcomeKind(lane) == IF lane = "DROP" THEN "drop" ELSE "route"

(* normalise, and process up to the classifier's answer.                   *)
Ingest(r, env) ==
  /\ door[r] = "ingest" /\ ing[r].at = "idle"
  /\ IF env.formed
     THEN /\ ing' = [ing EXCEPT ![r] = [Blank EXCEPT !.at = "classifying", !.env = env]]
          /\ RingAppend(Entry(ArrivalKind(env), r, NoLane))
     ELSE /\ ing' = [ing EXCEPT ![r].at = "unprocessable"]
          /\ UNCHANGED auditVars
  /\ UNCHANGED sent

Settle(r, lane, out, named) ==
  /\ ing' = [ing EXCEPT ![r] = [@ EXCEPT !.at = "answered", !.lane = lane, !.named = named,
                                         !.out = out, !.fail = ClassifyFailure(lane, out)]]
  /\ RingAppend(Entry(OutcomeKind(lane), r, lane))

Await(r, stage, lane, named) ==
  /\ ing' = [ing EXCEPT ![r] = [@ EXCEPT !.at = stage, !.lane = lane, !.named = named]]
  /\ UNCHANGED auditVars

(* Mutant: the scan looks at the content, not at the message that is sent. *)
CloudRouteScansContent(r, named) ==
  IF ~CloudKey THEN Settle(r, "CLOUD_LLM", "unset", named) /\ UNCHANGED sent
  ELSE IF ~CloudAllowSensitive /\ ing[r].env.content
       THEN Settle(r, "CLOUD_LLM", "blocked", named) /\ UNCHANGED sent
       ELSE Await(r, "cloud_llm", "CLOUD_LLM", named) /\ sent' = sent \cup {r}

(* route_cloud_llm up to its call.                                         *)
CloudRoute(r, named) ==
  IF ~CloudKey THEN Settle(r, "CLOUD_LLM", "unset", named) /\ UNCHANGED sent
  ELSE IF ~CloudAllowSensitive /\ MessageIsSensitive(ing[r].env)
       THEN Settle(r, "CLOUD_LLM", "blocked", named) /\ UNCHANGED sent
       ELSE Await(r, "cloud_llm", "CLOUD_LLM", named) /\ sent' = sent \cup {r}

(* The branches of process.  LOCAL_TOOLS executes nothing.                 *)
Dispatch(r, lane, named) ==
  \/ lane \in {"LOCAL_TOOLS", "DROP"} /\ Settle(r, lane, "settled", named) /\ UNCHANGED sent
  \/ lane = "LOCAL_LLM" /\ Await(r, "local_llm", lane, named) /\ UNCHANGED sent
  \/ lane = "CLOUD_LLM" /\ CloudRoute(r, named)

(* classify: any exception of the call gives DROP ...                      *)
ClassifierFails(r) ==
  /\ ing[r].at = "classifying"
  /\ Settle(r, "DROP", "settled", {})
  /\ UNCHANGED sent

ClassifierAnswers(r, named) ==
  /\ ing[r].at = "classifying"
  /\ \E lane \in ExtractToken(named) : Dispatch(r, lane, named)

(* ... but _extract_token runs outside its try: a content that is no       *)
(* string raises through process, and the handler turns it into a 502.     *)
(* So does an answer of a model lane whose JSON has another shape.         *)
ModelAnswerRaises(r) ==
  /\ ing[r].at \in {"classifying", "local_llm", "cloud_llm"}
  /\ ing' = [ing EXCEPT ![r].at = "bad_gateway"]
  /\ UNCHANGED <<auditVars, sent>>

(* Mutant: a failed call returns before the audit entry is written.        *)
LaneAnswersUnlogged(r, out) ==
  /\ ing[r].at \in {"local_llm", "cloud_llm"}
  /\ IF out \in {"capacity", "error"}
     THEN /\ ing' = [ing EXCEPT ![r] = [@ EXCEPT !.at = "answered", !.out = out,
                                !.fail = ClassifyFailure(ing[r].lane, out)]]
          /\ UNCHANGED auditVars
     ELSE Settle(r, ing[r].lane, out, ing[r].named)
  /\ UNCHANGED sent

(* route_local_llm and route_cloud_llm after their call.                   *)
LaneAnswers(r, out) ==
  /\ ing[r].at \in {"local_llm", "cloud_llm"}
  /\ Settle(r, ing[r].lane, out, ing[r].named)
  /\ UNCHANGED sent

IngestStep(r) ==
  \/ \E env \in Envelopes : Ingest(r, env)
  \/ ClassifierFails(r)
  \/ \E named \in Namings : ClassifierAnswers(r, named)
  \/ ModelAnswerRaises(r)
  \/ \E out \in Outcomes \ {"blocked", "unset", "settled"} : LaneAnswers(r, out)

IngestInit == ing = [r \in Requests |-> Blank] /\ sent = {}
-----------------------------------------------------------------------------
(* The entries about request r among some entries: these, in this order.   *)
LoggedAs(entries, r, these) ==
  LET places == {i \in DOMAIN entries : entries[i].req = r}
  IN  \E at \in [DOMAIN these -> places] :
        /\ \A i \in DOMAIN these : entries[at[i]] = these[i]
        /\ \A i, j \in DOMAIN these : i < j => at[i] < at[j]
        /\ \A p \in places : \E i \in DOMAIN these : at[i] = p

(* What /logs tells of an ingest request is what its sender was told: an   *)
(* answer has its arrival and then one outcome naming the lane it was      *)
(* answered from, a 422 has no entry, a 502 an arrival without an outcome; *)
(* and the newest MAX_ENTRIES of all entries, in order, are what the ring  *)
(* of audit.py still shows, however requests overlap.                      *)
AnsweredIsLogged ==
  /\ AllEntries(MaxEntries) = Newest(MaxEntries, appended)
  /\ \A r \in Requests : door[r] = "ingest" =>
       LET arrival == Entry(ArrivalKind(ing[r].env), r, NoLane)
           outcome == Entry(OutcomeKind(ing[r].lane), r, ing[r].lane)
       IN  LoggedAs(appended, r, CASE ing[r].at \in {"idle", "unprocessable"} -> <<>>
                                   [] ing[r].at = "answered" -> <<arrival, outcome>>
                                   [] OTHER -> <<arrival>>)

(* A message leaves the house (routing.py's call to the cloud model) only  *)
(* when the local classifier named the cloud lane for it, and, unless      *)
(* CLOUD_ALLOW_SENSITIVE, when no field it forwards is sensitive.          *)
Forwarded(env) ==
  CASE env.modality = "text"  -> {env.content}
    [] env.modality = "event" -> {env.source, env.content}
    [] OTHER                  -> {env.source, env.meta}
CloudCallsAreCleared ==
  \A r \in sent : /\ "CLOUD_LLM" \in ing[r].named
                  /\ CloudAllowSensitive \/ TRUE \notin Forwarded(ing[r].env)
=============================================================================
