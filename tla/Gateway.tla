-------------------------------- MODULE Gateway --------------------------------
(***************************************************************************)
(* The gateway process: every request passes the door of RequestAuth, and  *)
(* its handler is IngestPath's, PlanIntake's or ToolCall's.  The handlers  *)
(* interleave at their suspensions; they share the keys, the audit ring,   *)
(* the pending plans and the registry of installed tools, which an execute *)
(* reads at its call and not when its plan was checked.                    *)
(***************************************************************************)
EXTENDS IngestPath, PlanIntake, ToolCall

CONSTANT Traffic  (* bound: the routes each request of a behaviour asks for  *)

ASSUME TrafficAssumption == Traffic \subseteq [Requests -> SUBSET Routes]

gatewayVars == <<authVars, auditVars, ingestVars, intakeVars, callVars, repoVars>>

Expected(r, route) ==
  \E t \in Traffic : /\ route \in t[r]
                     /\ \A s \in Requests \ {r} : door[s] \in Routes => door[s] \in t[s]

(* A handler that answered stays so: a request is handled once.            *)
Door(r) == /\ \/ \E route \in Routes, p \in Presented :
                   Expected(r, route) /\ Arrive(r, route, p)
              \/ Serve(r)
           /\ UNCHANGED <<auditVars, ingestVars, intakeVars, callVars, repoVars>>

Ingesting(r) == /\ IngestStep(r)
                /\ UNCHANGED <<authVars, intakeVars, callVars, repoVars>>

Planning(r) == /\ IntakeStep(r)
               /\ UNCHANGED <<authVars, ingestVars, callVars, repoVars>>

(* plans_execute around one of its tool calls.  The first one needs its    *)
(* tool installed, for evaluate_plan, and has an audit entry before it; a  *)
(* later one may find the registry changed.                                *)
ExecuteStarts(r, c) ==
  /\ StartCall(r, c, c.tool \in installed)
  /\ \/ c.tool \in installed /\ RingAppend(Entry("plan", r, NoLane))
     \/ UNCHANGED auditVars

(* The entry of the step, and of the end of the plan after its last one.   *)
ExecuteEnds(r) ==
  /\ Collect(r) \/ Drain(r)
  /\ LET entry == Entry("plan", r, NoLane)
     IN  RingAppend(entry) \/ RingAppendAll(<<entry, entry>>)

Executing(r) == /\ \/ \E c \in Calls : ExecuteStarts(r, c)
                   \/ ExecuteEnds(r)
                   \/ (Timeout(r) \/ DrainTimesOut(r)) /\ UNCHANGED auditVars
                /\ UNCHANGED <<authVars, ingestVars, intakeVars>>

Working(r) == /\ WorkerStep(r) \/ Accept(r)
              /\ UNCHANGED <<authVars, auditVars, ingestVars, intakeVars>>

(* A change while no worker runs is another tree to start with.            *)
Editing == /\ \E r \in Requests : worker[r].at \in {"ready", "walking"}
           /\ \E f \in Files, v \in Versions \cup {Gone} : EditFile(f, v)
           /\ UNCHANGED <<authVars, auditVars, ingestVars, intakeVars, callVars>>

Init == AuthInit /\ AuditInit /\ IngestInit /\ IntakeInit /\ CallInit /\ RepoInit

Next ==
  \/ \E r \in Requests : \/ Door(r) \/ Ingesting(r) \/ Planning(r)
                         \/ Executing(r) \/ Working(r)
  \/ Editing

Spec == Init /\ [][Next]_gatewayVars

(* The event loop runs the waiting thread's result, and the two timers of  *)
(* sandbox.py run out; nothing is asked of the worker or the services.     *)
Fairness == \A r \in Requests :
  WF_gatewayVars(Executing(r) /\ call[r].at # "idle")

FairSpec == Spec /\ Fairness

AuditEntry == [kind : {"ingest", "event", "route", "drop", "plan", "lifecycle"},
               req : Requests, lane : Lanes \cup {NoLane}]

AuditType == /\ log \in Seq(AuditEntry) /\ Len(log) <= MaxEntries
             /\ appended \in Seq(AuditEntry)

(* Every variable keeps its range, and the audit ring its length, from the *)
(* door to the answer, whatever requests overlap.                          *)
TypeOK == AuthType /\ AuditType /\ IngestType /\ IntakeType /\ CallType /\ RepoType
=============================================================================
