# A TLA+ model of the Mini-Jarvis gateway

Mini-Jarvis is a local gateway that lets people and models *propose* plans
(lists of tool calls), lets a person *approve* or *reject* them, and *executes*
approved plans by running installed tools in a subprocess.  "The gateway is the
authority": evidence files, notifications and model output never are.  This
directory models that authority, the readable evidence kept beside it, the
registry that says which tools exist, the way a generated tool takes into it,
and the gateway as a process: the door with its keys, what comes in through it
(messages to a model, plans, decisions), and the tool calls that go out.  It
checks them with TLC on small instances and proves most of their safety with
TLAPS for all instances.

## 1. The system

| Component (source) | State it keeps | Operations | Modelled in |
|---|---|---|---|
| Plan store and transition lock (`approvals.py`) | one JSON file per plan in `data/plans/{pending,approved,rejected,executed}`, a lock directory per plan | propose, approve, reject, mark executed, take and give back the lock | `PlanLifecycle` |
| Plan endpoints (`routers/plans.py`) | requests in flight | `/plans/propose`, `/approve`, `/reject`, `/execute`, `/from-message`, reads | `PlanLifecycle`, `WorkspaceMirror`, `PlanIntake` |
| Workspace mirror (`workspace.py`, `services/workspace_mirror.py`, `routers/workspaces.py`) | `data/workspaces/{active,completed,rejected}/<plan_id>/` | create, write, append to the log, move, summarise | `WorkspaceMirror` |
| Tool registry (`registry.py`, `routers/tools.py`) | a dict in memory, rebuilt at start | propose, approve, install, reject, look up | `ToolRegistry` |
| Install script (`scripts/registry_append_reviewed_generated_tool.py`) | `data/registry/generated_installed_tools.json`, evidence in the build folder | append, verify, write evidence, roll back | `GeneratedInstall` |
| Policy and plan schema (`policy.py`, `plans.py`) | none | `evaluate_plan` | `PlanIntake`; outcome only elsewhere |
| Sandbox (`sandbox.py`, `sandbox_worker.py`) | a subprocess per tool call | run, time out, kill, drain | `ToolCall` |
| Built-in tools (`tools.py`, `tools_http.py`, `http_allowlist.py`) | none in the gateway | registry gate, argument check, destination check, calls to services, walks over the repository | `ToolCall`, `RepoTools` |
| API-key roles (`services/auth_roles.py`, `main.py`) | four configured keys | classify key, classify route, allow | `RequestAuth` |
| Ingest (`ingestion`, `classification`, `dispatch`, `routing`, `failure_classifier`) | requests in flight | normalise, classify, route, annotate | `IngestPath` |
| Advisory router, plan builder (`services/`) | requests in flight | choose an agent, build a plan from a message | `PlanIntake` |
| Agent loader (`agent_loader.py`) | files of one agent | `get_agent_tool_policy` | `PlanIntake` |
| Audit log, notifications | ring of 10,000 entries; an append-only JSONL file | append, two views | `AuditLog`, `PlanIntake` |
| Tool build pipeline (`scripts/automation_lab_*.ps1`) | `data/tool_builds/<id>/`: files, and flags in `BUILD_INDEX.json` | create, generate, test, review | `ToolBuild` |
| Automation lab, capability scoring, dry run | files of one request | draft artifacts, score lanes | not modelled, see section 7 |
| Loop models, clients, operator scripts | none, or outside the gateway | | not modelled, see section 7 |

How they interact.  A middleware decides by the key of a request whether its
handler runs.  An ingest request awaits the local classifier and then a model; a
message to `/plans/from-message` awaits the advisory router and then takes the
way of a propose.  A propose request runs the policy, writes the workspace and
saves the plan to `pending/`; approve and reject move the plan file under the
plan's lock and then update the workspace; execute takes the lock, checks the
approved file against its digest and against the policy and the registry, and,
still holding the lock, awaits one sandboxed tool call after another before it
moves the plan to `executed/`.  Propose, approve and reject do their file work
in worker threads, execute on the event loop, and the loop serves other requests
whenever execute awaits.  The registry is shared by the policy and the tool
gate, and may change between any two steps of a run.  The tool build scripts
hand a build from one to the next through its folder, and the install script
takes a reviewed build into the file the registry loads at its start.

What makes it hard: plan transitions are two file operations (write the
destination, unlink the source) that may fail or be cut off in between; the lock
is a directory that survives a crash; waiting for it is bounded; one plan id can
be pending and approved at once; the mirror is written outside the lock; the
install script rewrites a shared file from an earlier read; handlers interleave
wherever they await a model, a thread or a tool, and the registry changes
meanwhile; a tool's timeout races its worker and the service behind it.
PROJECT.json lists these as hazards, each at its line, with the properties that
stand against it.

What makes each component correct:

* *plan store*: a lock has one holder and comes back; nothing runs that was not
  proposed and approved as it stands; an approval is good for one run; the file does not change under a run; a plan is lost at most in an overwrite of its
  own file that is cut short; the record of an execution is what ran; every
  request is answered.
* *mirror*: never ahead of the store, never vanishing, and faithful as far as
  the code's own order of writes allows.
* *registry and install script*: nothing is installed unreviewed, built-in tools
  keep serving their names, an installation is all or nothing and stays.
* *the door*: who brings plans in does not decide on them.
* *ingest and audit*: what the log tells of a request is what its sender was
  told, as far as the ring reaches back; nothing sensitive leaves for the cloud.
* *plan intake*: what pends passed the policy against the tools of that moment,
  an agent is chosen by a sure answer only, and the sender knows of the save.
* *tool calls*: the result says what happened, a call ends by its timeout and its
  worker with it, only configured services are asked, a walk is exact.
* *tool build*: no stage is skipped, the flags say what the files are, failed
  checks are final, and a failing step leaves a build some script still accepts.

## 2. Modules

`PlanAuthority` is the abstract promise: a plan has at most one grant (the
content that was approved), a run consumes it and is the only one of its plan,
and a run may be broken off, which leaves the grant as it was.

`PlanLifecycle` is the detailed plan store.

| In the module | In the code |
|---|---|
| `file[p][f]` | the plan's file in folder `f`: absent, torn, or a document (content and digest) |
| `lock[p]` | the lock directory |
| `hand`, `pc`, `op`, `plan`, `step` | a request: what it has read, where it is, which endpoint, which plan, how many steps are done |
| `installed` | the names `registry.installed_tools()` returns |
| `Propose`, `Ask`, `TryLock`, `GiveUp` | entry of the four endpoints, the lock and its 5 s limit |
| `CheckApprove`, `CheckReject`, `StartRun`, `Refuse` | the checks under the lock and every refusal, which leaves through `finally` |
| `CallTool`, `MissTool`, `ToolReturns`, `ToolRaises`, `FinishRun` | the step loop of execute |
| `Write`, `Unlink`, `Release` and their `...Fails` | the file operations, one action each |
| `Crash`, `Edit` | death and restart of the process; a person editing a stored file |
| `left` | how often each kind of fault may still strike: a failing write, unlink or tool (`step`), a lock directory left behind by a crash or a failing `rmdir` (`lock`), a hand edit (`edit`) |
| `InstallTool`, `WithdrawTool` | the registry's effect on a plan |

The digest is modelled as an injection of the content (SHA-256 without
collisions): `Doc` carries a content and the content its digest was computed
from, so an edit that does not touch the digest is visible to the check and one
that recomputes it is not.

`WorkspaceMirror` takes the plan store as one step per transition and models
every write of the mirror in the order the handlers make them.  A mirror block
that runs without an `await` is one step; if an `OSError` cuts it short, any of
its intermediate directories may be the result (`ProposeCut`, `DecisionCut`,
`StartCut`, `StepCut`, `FinishCut`), the half-done move of a denied proposal
included.  The store may raise as well (`SaveRaises`, `ApproveRaises`,
`RejectRaises`, `MarkFails`), and leaves a file it overwrites as it was or
unreadable.  The module instantiates
`PlanAuthority` too, so both views of the store keep one promise.

`ToolRegistry` is the gateway's registry as a sequence of entries in insertion
order, with the import of the module (seed, then file) as its initial state and
as `Restart`.  `GeneratedInstall` extends it with runs of the install script,
one action per file operation, sharing the registry file and the one temporary
file name; it is the composition the runs check.

`ToolBuild` is one build folder and the four scripts that carry it to a
reviewed package.  `index` is the set of flags that are true in
`BUILD_INDEX.json`, or that it is missing or torn; `disk[f]` says of every other
file whether it is there and whole, and of the results what their verdict is.
`Begin` passes a stage's gates (`GateGenerate`, ...) and reads the index, which
the run keeps and writes back later (`WriteIndex`); test and review read it a
second time (`Keep`), and it is that text their catch blocks put back.  `Outputs` is the order of the
writes.  `LoseHome` is a write whose directory an overlapping `create` removed.
`Erase` and `Reindex` are the catch block, which also runs after a failing step
(`StepFails`) but not after a `Kill`; `Partial` is what either leaves behind.
The verdict of the static checks is any, since people edit the files of a build
between the stages.

`Gateway` is the process around all this.  It composes six modules, each with
its own variables, its own step relation and its own properties; `Gateway` says
which handler a request gets and what the handlers share.

| Module | State | Actions and the code |
|---|---|---|
| `RequestAuth` | `keys`, `door[r]` (verdict or route), `by[r]` (the header let through) | `Arrive`: `require_api_key` with `ClassifyApiKey`, `RouteApiRole`, `KeyAllowsRoute` of `auth_roles.py`; `Serve`: the handlers that only read |
| `AuditLog` | `log` (the ring), `appended` (history) | `RingAppend`, `AllEntries`: `audit.py` |
| `IngestPath` | `ing[r]` (stage, input, lane, outcome, failure), `sent` (history: asked of the cloud) | `Ingest` up to the classifier, `Classifier...` and `Lane...` for its answer and a lane's, `CloudRoute` for the gate before the cloud: `routers/ingest.py`, `classification.py`, `dispatch.py`, `routing.py`, `failure_classifier.py` |
| `PlanIntake` | `job[r]`, `pending`, `active`, `installed`, `notes`, `faults`, `saves` (history) | `ProposeDraft`, `FromMessage...`, `RouterAnswered`, `RouterFails` up to the next suspension, with `EvaluatePlan`, `AgentAllows`, `SelectRoute`, `BuilderTool`; `SavePending`, `SaveTimesOut`, `SaveFails` in the worker thread, the last of which may leave a torn file; `FinishPropose`, with the answer `Printed`; `Decide`, `DecideFails`, `CloseDecision`, `RegistryChanges`: `routers/plans.py`, `routers/tools.py`, `policy.py`, `agent_loader.py`, `services/small_router.py`, `plan_builder.py`, `notifications.py` |
| `RepoTools` | `tree`, `edits`, `scan[c]` (a walk under way) | `StartScan`, `ScanFile` once per file, `FileAnswer`, `EditFile`: the file tools and walks of `tools.py` |
| `ToolCall` | `call[r]` (caller), `worker[r]` (subprocess), `flight[r]` (request at the service), `acted`, `asked` (histories) | `StartCall`, `Collect`, `Timeout`, `Drain`, `DrainTimesOut`: `run_installed_tool` and `sandbox.py`; `Boot`: `sandbox_worker.py`; `ToolRefuses`: arguments a tool turns down before it looks or asks; `Request`, `AddPosts`, `ActAnswered`, ...: the service tools; `Accept`: the service |

A handler is cut into steps exactly where the code awaits: a model call, a
worker thread, a tool.  `Door`, `Ingesting`, `Planning`, `Executing`, `Working`
and `Editing` are the module's disjuncts.  A call may be its plan's first or a
later one, last or not: the first needs its tool installed when the plan is
checked, a later one meets the registry as it is then, and the audit entries of
the beginning, the step and the end go with it.  In `PlanIntake` a plan pends,
or none does, or a torn file is in its place; what the store does with its files and locks is `PlanLifecycle`'s, and
what the mirror writes `WorkspaceMirror`'s: the three see the same endpoints at
different grain, and the last two keep the one promise of `PlanAuthority`.

`MC...` modules give constants their values.  `...Proofs` modules extend a
component's module with theorems.

Named mutants (`...Unlocked`, `...Early`, ...) stand before the definition they
spoil: each is a plausible bug of the code, and the property listed for it in
PROJECT.json fails when it replaces the real definition.

## 3. Runs

| Run | Instance | Shows |
|---|---|---|
| `lifecycle_faults` | 2 requests, 1 plan, 2 contents (a plan of one call, one of none), one failing step, one lock left behind, fair handlers | type, exclusion, stable content while running, what an overwrite that is cut short may lose, true execution records, the refinement of `PlanAuthority`; every request is answered, and only a crash or a failing `rmdir` leaves a plan locked |
| `lifecycle_approvals` | the same with a hand edit and two locks left behind | only what was proposed and approved as it stands runs, once per approval, or again after a run that failed in its own request |
| `workspace_mirror` | 2 requests, 3 contents of three policy outcomes, one failing mirror block, store operation or tool, or a crash | exactly when the mirror can be trusted; evidence never runs ahead and never vanishes; the coarse store implements `PlanAuthority` |
| `registry_lifecycle` | 2 names in 2 versions, 2 script runs side by side for one tool name | reviewed installs only, and what is rejected stays so until a restart; built-ins keep their names; no tool gets two rows |
| `install_faults` | 2 builds one after the other, 2 failing steps, 2 kills | all or nothing, evidence and row together (one failing step); completed installs stay; only an interrupted way back tears the file |
| `tool_build` | 1 build, 2 script runs side by side, 2 failing steps, 1 kill | no stage is skipped; one run at a time, flags are true and failed checks final; one failing step whose catch block goes through never leaves a build that is stuck |
| `gateway` | 2 overlapping requests of the kinds that share something, 2 key setups, ring of 2, 1 plan id, 9 tool calls, one failing write, one change of the tree | from the door to the answer: no self-approval, the log matches the answers, the cloud gate, only sound plans pend, answers tell of saves, calls end, tell the truth and ask what is configured |

Runs that show a disagreement between the code and what its documentation or
comments say (TLC must find the violation):

| Run | The code | The text |
|---|---|---|
| `executed_runs_again` | a plan id with an executed record runs again after a new approval | `docs/CURRENT_STATE.md:24`, `routers/plans.py:473` |
| `rejected_runs` | rejecting a re-proposed plan leaves its older approval executable | `scripts/test_approval_state_locking.py:229`, `approvals.py:4` |
| `summary_shows_decision` | the summary's pattern never matches; the decision is never shown | `routers/workspaces.py:97` |
| `install_lost_row` | of two overlapping installs the first loses its row | `docs/CURRENT_STATE.md:79` |
| `last_installed_serves` | of several installed versions of a name the first one serves, not the last | `registry.py:155` |

Seen while modelling and not run:

* `README.md:123` says a workspace is active while its plan is proposed or
  approved, but a propose of the same id with a denied content moves it to
  `rejected/`; a completed workspace shows the latest proposal, not what ran,
  when the id was proposed again before it ran (`docs/CURRENT_STATE.md:11`).
  `MirrorFaithful` says what does hold.
* A rejected tool can be proposed again after a restart (`routers/tools.py:105`
  calls it terminal).  `InstalledOnlyReviewed` says what does hold.
* A confidence of NaN or infinity is not below the router's minimum and chooses
  an agent (`services/small_router.py:230`).  The plan is saved, and then the
  answer, which repeats the confidence, cannot be written as JSON: the sender gets
  a 500 for a plan that pends.  `RoutedSoundly` excludes only a confidence below
  the minimum, and `AnswerTellsSave` names this 500 as its exception.
* A write that is cut short while it overwrites a pending or approved file
  destroys the plan that was there (`approvals.py:266`, `:305` write in place).
  `LostOnlyByOverwrite` says that nothing else loses one, and that an approve then
  still has the pending plan.
* `classify` says it never raises, but a null content raises
  (`classification.py:128`, `:139`): the sender gets a 502 and the log an arrival
  without an outcome.  A null reply of a lane is answered without a failure.
* `/plans/from-message` wraps every `JSONResponse` of propose, the 409 and 500
  included, with the workspace state `rejected` (`routers/plans.py:314`).
* The handler of the second timeout reads a variable the first never assigned
  (`sandbox.py:371`), so the call raises instead of reporting a timeout
  (`DrainTimesOut`; for the plan around it that is `ToolRaises`).
* After a timeout the service may have acted although the step is told an error
  (`ResultTellsWhatHappened` holds in the other direction only).  A plan's
  `max_runtime_seconds` is never enforced.
* An agent's strict `tools.yaml` is looked at when a plan is proposed and not when
  it is executed, and one that does not parse only advises.  `evaluate_plan` does
  run again at execute (`routers/plans.py:524`).

Bounds.  Plans share nothing but the registry (each has its own files, lock and
workspace), so one plan is enough for safety.  Two requests are needed for every
race the code has.  Two contents tell "the approved one" from "another one".  Faults are
counted: one of each kind is enough to stop any transition half way and to have a
second request meet what it left, and the install runs allow two so that the way
back fails as well.  A plan has at most one tool call: the loop of execute treats
every step alike, and what can happen between two steps also happens before the
first (the theorems are for any number of calls).  `workspace_mirror` has
one fault, and `MirrorFaithful` speaks of the plans none has touched;
`registry_lifecycle` leaves faults and kills to `install_faults`.
In `tool_build` two runs give every overlap, two failing steps let the catch
block fail as well, and one kill stops a run anywhere; builds share nothing, so
one is enough.  The log of a workspace holds one run's three entries and
three more per fault at most, which `TypeOK` of `WorkspaceMirror` checks and
`TypesHold` proves: a second run on one workspace needs a first that failed.
In `gateway` a pair of requests is enough for every sharing there is (the ring,
the registry, a plan id, the keys), and `Traffic` lists the pairs: two that bring
something in, one that brings a plan in beside one that decides or changes the
registry, a tool call beside a decision or a change of the registry, and reads
beside a decision; other pairs share nothing but the ring.  A ring of two
overflows with the third entry, which two ingest requests reach.  The key setups
are distinct values, and one value for two kinds; the calls have each way a tool works (look-up, act, look-up then act, walk, file), a tool
`run_tool_by_name` does not know, arguments that do not fit the schema, and some
that do but that the tool turns down; the services are
configured below a path, malformed, and not at all; one tree of three files has
a hidden one and can change once.
`Builtin` is empty in the `install_*` runs because no build id gives a built-in
name, and the builds have names of their own there; in `registry_lifecycle` two
builds share one.

Fairness.  Two runs need it.  `lifecycle_faults`: weak
fairness of each request's own next step (`Proceed`).  The handlers are
coroutines and worker threads of one process that is scheduled as long as it
lives; a tool call ends by the sandbox's timeout; waiting for the lock ends by
its own time limit.  `gateway`: weak fairness of `Executing` once a call has
begun, which is the thread that waits for the subprocess and its two timers; the
worker, the services and everything that waits for a model may stop at any
point, and `EveryCallAnswered` holds all the same.  Arrivals, edits, faults and
crashes are never fair: nobody promises them.

Deadlock is checked in every run but two (`CHECK_DEADLOCK FALSE`).  In
`tool_build` a build that is reviewed, or whose checks failed, admits no further
script, so the system really stops there.  In `gateway` a request is handled
once, so the model stops when both are answered.

## 4. Proofs

Every safety property that a passing run checks is also a theorem, for every value
of the constants that satisfies the named assumptions of its module:
`PlanLifecycleProofs` for any number of requests, plans, contents, tools and faults;
`GeneratedInstallProofs` and `ToolBuildProofs` for any number of runs, builds, faults
and kills; `WorkspaceMirrorProofs` about the mirror; `GatewayProofs` about the
composed gateway, for any traffic, keys, messages, agents, tools, services and
faults.  `ToolRegistryProofs`, `RepoToolsProofs` and `NumberFacts` hold the lemmas
they use about the registry, the walks and the numbers.  `USE DEF` at the head of a
module opens its enumerated sets.

Two operators compute over data with a recursive function: `Import` over the rows of
the registry file and `Matches` over the lines of a file.  The library's rules of
induction take an operator, which the installed provers do not instantiate, so
`NumberFacts` derives from the well-foundedness of `<` the one fact these proofs
need: a nonempty set of numbers has a least one (`LeastNumber`).  What a function
yields is then shown by its least counterexample.

* `PlanLifecycleProofs`, types and the lock: `TypeCorrect` (`[]TypeOK`) and `Exclusive`
  (`[]LockExclusive`).  `TypeOK` is inductive, and so is `LockExclusive`,
  which says more than exclusion: a request past the lock has its directory, so
  that no other request's `mkdir` succeeds before it is given back.
* `PlanLifecycleProofs`, grants: `RunsAreGranted` (`[]RunsOnlyGranted`, hand edits
  included) and `ApprovalIsForOneRun` (`OneRunPerApproval`: a failing write, unlink
  or tool in the execute request itself, where the code releases the lock with the
  plan still approved, gives the approval back; a crash does not, since the lock
  directory stays).  The strengthening ties every document that may come to
  lie in `approved/`, including what a transition holds in hand, to a proposal
  and an approval of the same content, and counts for each plan what is still
  owed: an approved file, or a run that will remove it.
* `PlanLifecycleProofs`, moves: `RunIsStable`, `LostInAnOverwriteOnly`
  (`LostOnlyByOverwrite`), `RecordIsWhatRan`, assuming `NoEdits`.  The invariant says that what a request in a transition has in
  hand is still what its source file holds, which needs exclusion, and that a
  destination is whole by the time its source is unlinked.
* `PlanLifecycleProofs`, refinement: `LifecycleRefines`, `Spec => ImplementsAuthority`,
  assuming `NoEdits`: initial states map to initial states and each action to
  one action of `PlanAuthority` or to a stutter.
* `GeneratedInstallProofs`: `OneRowPerTool` (`[]RowsAreUnique`), for runs that
  overlap in any way.  A file without duplicates is not inductive by itself: the
  next file may come from any run's backup or from the temporary file they
  share, so the invariant (`CopiesClean`) asks it of all copies, and that a run
  about to append has checked its own copy.  `TornOnlyOnTheWayBack`
  (`[]TornOnlyByRestore`) assumes `OneAtATime`: a second run may rename the
  first one's half written temporary file.  `InstallationsStay`
  (`[]InstalledStays`) assumes it too: its invariant adds to those of the torn file
  that a running script's backup and temporary file hold the rows of every tool
  that was reported installed, so that whatever comes to lie at the registry's
  path keeps them, unless a way back left it torn.  `WholeOrNothing`
  (`[]AllOrNothing`, also under `OneAtATime`) adds what the evidence of a build
  looks like at every step of its run (`Progress`) and that, as long as one step at
  most has failed and none was killed, no copy is torn and no second way back is
  needed, so that what the first one rewrites is what was there before; and that
  a row is in the file only if a build's evidence is complete or its run has put it
  there and is still at work.
  `InstallTyped` (`[]TypeOK`) needs neither.
* The registry, in the same module, since the script owns the file it reads:
  `BuiltinKeepsServing` (`[]BuiltinServes`) and `OnlyReviewedIsInstalled`
  (`InstalledOnlyReviewed`, an action property).  `ToolRegistryProofs` shows by
  induction over the rows what the import yields: the seed stays at the head in its
  order, every entry behind it is from a row of the file, and no row is missing
  (`Loaded`).  The invariant `First` says that a built-in entry comes before every
  other entry of its name, which an import establishes and the API, which only
  appends entries or changes a status, keeps.
* `WorkspaceMirrorProofs` proves every property of `workspace_mirror`.
  `StoreInv` is about the store and the requests: types, one holder per lock, a
  run is over an approved plan, an approved plan was granted.  `MirrorInv` says
  that every directory is backed by that: it claims an approval or an execution
  only if the store has had it.  A mirror block is a chain of values that ends in
  its last, and a cut leaves any of them; `Passes` says that all of the chain are
  backed and that none has a longer log than the faults so far account for, which
  is proved once per handler and gives `TypesHold`,
  `EvidenceIsBacked` and, with the order of removal and rename in a move,
  `EvidenceRemains`.  `StoreRefines` maps each step to at most one step of
  `PlanAuthority` per plan.  For `CleanMirrorIsFaithful` the invariant `TrackInv`
  follows a plan that is used one request at a time: between requests its
  directories are where and what its stored copies say (`AtRest`), and during its
  one request they are what that stage of the handler has made of them
  (`InFlight`); a plan stops being clean in the step that overlaps or faults, and
  steps of other plans leave it alone.
* `GatewayProofs` has one invariant for each part, over the part's own variables,
  and one lemma that says which parts each disjunct of `Next` leaves alone.
  `DoorInv`: who is behind the door has a key its route admits
  (`NobodyApprovesOneself`, by the two tables of `auth_roles.py`).  `CloudInv`: a
  request in `sent` is past the classifier and the gate, and its input does not
  change any more (`CloudIsCleared`).  `SoundInv`: a plan that is about to be
  saved was checked against the tools recorded with it, whatever the registry is
  now, and the agent is the one of the route that was heard (`PendingIsSound`,
  `RouterIsHeard`).  `TellInv`: where a job is tells whether it has saved, an
  internal error hides a save only after a confidence that cannot be printed, and
  without a fault there is one notice per save (`SenderKnowsOfSave`, with the
  library's facts on finite sets).  `CallInv` relates the four views of one call
  (caller, worker, request in flight, what the service did) by `Good`, and
  `AskInv` the worker's settings to the gateway's (`CallsTellTheTruth`,
  `AsksWhatIsConfigured`, `NothingRunsOn`).  `ScanInv`, from `RepoToolsProofs`, is
  about each walk: what it found is the head of what it read, and what it read is
  from files before its position, which lie in the walk once (`rglob` yields a
  path once) and report each of their lines at most once (`MatchesReport`, by
  induction over the lines), so that no edit between two files makes it report
  anything twice (`WalksAreExact`).  `LogInv` is about the history of the log: a
  request's entries are those `Due` at its stage, at the places the history has
  them and in that order (`LoggedAs`), an append of another request's entry leaves
  them alone, and the ring is the newest end of the history after any of its
  appends (`LogTellsTheAnswer`).  `GatewayTyped` (`[]TypeOK`) collects the types of
  the six parts from these invariants, the length of the audit ring and the
  addresses asked included.
* `ToolBuildProofs`: `TypeCorrect`; `NoStageIsSkipped` (`[]StagesInOrder`, runs
  side by side included: each run keeps an index that is in order and lets it
  in, so what it writes back is in order, however old); `FlagsAreTrue` and
  `FailureIsFinal` (`[]FlagsTellTruth`, `[]FailedStaysOut`).  For the last two,
  `Honest` says what one run by itself has in hand: the index it read is true
  and lacks its own flag, the index on disk is that one or torn, and every
  output not on its list any more is whole.  Every step but the write of the
  index touches only the outputs of its own stage (`Confined`), which no other
  flag speaks of.  `OneFaultIsRecovered` (`[]NeverStuck`): `Recovers` says that a
  folder nobody works on is `Settled` (it is gone, or its index is readable and
  every stage that is not marked has none of its outputs, a failed test aside), and
  for a run under way what it still has to write or erase before that holds again
  (`Owes`).  A run on its way back has used the one fault up, so that no second one
  stops it.

The assumptions are on the constants (which faults the environment has, how many
runs of the script), stated and named where they are used, and they mark what
the code does not promise.

Only model-checked: liveness (`EveryRequestAnswered`, `LockEventuallyFree`,
`EveryCallAnswered`), since the prover has no rules for fairness and `ENABLED`; and
the five violations, which are counterexamples.

## 5. Limits of the models

* A file operation is one step; what a reader can see of a write under way is
  the torn document a failure leaves.  Reading is one step with the check on it.
* The lock's 5 s are not measured: a waiting request may give up whenever the
  lock is held.
* Wording, sizes and formats of evidence files and HTTP details are left out,
  except where a property is about them (`summary_shows_decision`).  Every
  audit entry is in `Gateway` but the warnings of execute that its mirror
  failed, which `WorkspaceMirror` has as failures.
* A text is what the code looks for in it: the patterns of the plan builder, the
  lanes a classifier's output names, whether a sensitive pattern matches, whether
  a line holds the query.  An address is an origin and a path.
* In `Gateway` a plan's own file operations, its lock and the loop over its steps
  are `PlanLifecycle`'s; a call there is one step of some approved plan.
* Timeouts are not measured: a timer that is running may run out at any moment.
* Hand edits are in `PlanLifecycle` only.
* Six hazards have no property, and PROJECT.json says why at each: an approve
  carries no digest of what the reviewer saw; a propose that times out has already
  overwritten the workspace's plan; a kill between the registry's replace and the
  evidence; candidate files edited after their test; a confidence of NaN, which the
  router takes; and two key kinds with one value, which counts as one of them only.
  The code does these things by itself, so a property could only restate them.

## 6. Plan

1. *(done)* `PlanAuthority`, `PlanLifecycle`, their proofs.
2. *(done)* `WorkspaceMirror` over the same authority, with proofs.
3. *(done)* `ToolRegistry`, `GeneratedInstall`, with proofs.
4. *(done)* `ToolBuild`, with proofs.
5. *(done)* `ToolCall` and `RepoTools`: worker, timeout, kill, drain, services,
   and the caller's result.
6. *(done)* `RequestAuth`, and the policy in `PlanIntake`.
7. *(done)* `IngestPath`, and the advisory router and builder in `PlanIntake`.
8. *(done)* `AuditLog`, notifications, and `Gateway` over all of them, with proofs.
9. *(done)* Every safety property of the passing runs as a theorem.
10. Left to prove: what a single plan keeps of `ImplementsAuthority` when people edit
   the files of other plans; what of `AllOrNothing` holds for runs of the script that
   overlap on different builds; an abstract specification of a tool call, that is
   what its caller may rely on, with `ToolCall` shown to implement it.
11. Left to model: the scoring of the automation lab's outcome lanes, as an operator
   against a reference definition.

The number of runs is kept small: a new module is composed with those that are
there.

## 7. Not modelled, and why

* The automation lab and its capability scoring: command-line tools that turn one
  request into draft texts in a fresh folder; nothing else writes there and no
  part of the gateway reads it.  The dry run of a generated tool is of the same
  kind.  The install wrapper checks a phrase and an id and starts the script
  `GeneratedInstall` models.
* The loop models and the feedback module are on no path the gateway takes at this
  commit.  Neither are `execute_python`, `validate_tool_proposal` and
  `execute_http_tool` of the sandbox, `tools.execute` with its intent parser, and
  `select_agent`.
* The clients (Open WebUI scripts, dashboard, MCP resources) call the endpoints and
  read the files other modules write; their requests are the requests of
  `PlanLifecycle` and `Gateway`.
* Start-up of the gateway and its exception handler; reports and git helpers, which
  are outside it.
