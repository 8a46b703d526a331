-------------------------------- MODULE ToolCall --------------------------------
(***************************************************************************)
(* One tool call of an approved plan: run_installed_tool in the gateway,   *)
(* the sandbox subprocess it starts and waits for with a timeout, the      *)
(* worker in it and the media service the worker talks to.  PlanLifecycle  *)
(* has the plan around the call.  What the service did and what the caller *)
(* is told can differ: the worker may be killed, the answer may be lost.   *)
(***************************************************************************)
EXTENDS RequestAuth, RepoTools

CONSTANTS
  Calls,     (* bound: the tools called, with their argument                 *)
  Services,  (* the media services                                           *)
  GatewayUrl,(* GatewayUrl[s]: the address of s in the gateway's environment *)
  DefaultUrl,(* DefaultUrl[s]: the address tools.py falls back to            *)
  NoUrl,     (* not set                                                      *)
  Segments   (* the names a path of an address is made of                    *)

(* A tool of a service looks something up (get), acts (act), or does the   *)
(* one and then the other.                                                 *)
ServiceTools == {"radarr_search", "radarr_add", "sonarr_search", "sonarr_add",
                 "sabnzbd_queue", "sabnzbd_pause", "sabnzbd_resume"}
Adders  == {"radarr_add", "sonarr_add"}
Actors  == Adders \cup {"sabnzbd_pause", "sabnzbd_resume"}
ServiceOf(tool) ==
  CASE tool \in {"radarr_search", "radarr_add"} -> "radarr"
    [] tool \in {"sonarr_search", "sonarr_add"} -> "sonarr"
    [] OTHER -> "sabnzbd"

(* An address: its origin (scheme, host and port), NoOrigin when it has no *)
(* scheme or host, and the segments of its path.                           *)
Address  == [origin : STRING, path : Seq(Segments)]
NoOrigin == "none"
Endpoint ==
  [radarr_get |-> <<"api", "v3", "movie", "lookup">>, radarr_act |-> <<"api", "v3", "movie">>,
   sonarr_get |-> <<"api", "v3", "series", "lookup">>, sonarr_act |-> <<"api", "v3", "series">>,
   sabnzbd |-> <<"api">>]

(* valid: the arguments are what the input schema asks for; usable: the    *)
(* tool takes them too.                                                    *)
Call == [tool : STRING, file : Files \cup {Gone}, max : Int,
         valid : BOOLEAN, usable : BOOLEAN]

ASSUME ToolCallAssumption ==
  /\ Services = {"radarr", "sonarr", "sabnzbd"}
  /\ {"api", "v3", "movie", "series", "lookup"} \subseteq Segments
  /\ DefaultUrl \in [Services -> Address] /\ NoUrl \notin Address
  /\ GatewayUrl \in [Services -> Address \cup {NoUrl}]
  /\ \A c \in Calls : c \in Call /\ (c.tool \in FileTools => c.file \in Files)
  /\ Callers = Requests

VARIABLES
  call,     (* call[r]: the caller's stage, its call and the result it got   *)
  worker,   (* worker[r]: the subprocess, its settings and what it printed   *)
  flight,   (* flight[r]: the action the worker asked a service for          *)
  acted,    (* history: the calls whose action a service carried out         *)
  asked     (* history: the addresses the worker of each call asked          *)

callVars == <<call, worker, flight, acted, asked>>

NoResult == [success |-> FALSE, in_worker |-> FALSE, timeout |-> FALSE]
NoArgs   == [tool |-> "none", file |-> Gone, max |-> 0, valid |-> FALSE, usable |-> FALSE]
NoCall   == [at |-> "idle", what |-> NoArgs, result |-> NoResult]
NoWorker == [at |-> "none", env |-> [s \in Services |-> NoUrl], cfg |-> NoUrl, ok |-> FALSE]
Live     == {"starting", "ready", "walking", "getting", "acting"}

CallType ==
  /\ \A r \in Requests :
       /\ call[r].at \in {"idle", "running", "draining", "answered", "raised"}
       /\ call[r].what \in Calls \cup {NoArgs}
       /\ call[r].result \in [success : BOOLEAN, in_worker : BOOLEAN, timeout : BOOLEAN]
       /\ worker[r].at \in Live \cup {"none", "exited", "crashed", "killed"}
       /\ worker[r].env \in [Services -> Address \cup {NoUrl}]
       /\ worker[r].cfg \in Address \cup {NoUrl}
       /\ worker[r].ok \in BOOLEAN
  /\ flight \in [Requests -> {"none", "sent", "done"}]
  /\ acted \subseteq Requests /\ asked \in [Requests -> SUBSET Address]
-----------------------------------------------------------------------------
(* validate_http_destination for two addresses.                            *)
ValidateHttpDestination(req, base) ==
  /\ req.origin # NoOrigin /\ base.origin # NoOrigin
  /\ req.origin = base.origin
  /\ IsPrefix(base.path, req.path)

(* The address of its service a tool uses: all but radarr_add read the     *)
(* environment when they are called, radarr_add has config.py's.           *)
BaseUrl(r) ==
  LET tool == call[r].what.tool
      env  == worker[r].env[ServiceOf(tool)]
  IN  IF tool = "radarr_add" THEN worker[r].cfg
      ELSE IF env = NoUrl THEN DefaultUrl[ServiceOf(tool)] ELSE env

Target(r, step) ==
  LET s == ServiceOf(call[r].what.tool)
      e == CASE s = "sabnzbd" -> Endpoint.sabnzbd
             [] s = "radarr"  -> IF step = "get" THEN Endpoint.radarr_get ELSE Endpoint.radarr_act
             [] s = "sonarr"  -> IF step = "get" THEN Endpoint.sonarr_get ELSE Endpoint.sonarr_act
  IN  [BaseUrl(r) EXCEPT !.path = @ \o e]

At(r, stage) == worker' = [worker EXCEPT ![r].at = stage]
(* The worker prints its result and ends.                                  *)
Finish(r, ok) == worker' = [worker EXCEPT ![r].at = "exited", ![r].ok = ok]
-----------------------------------------------------------------------------
(* run_installed_tool up to the start of the subprocess; there: the tool   *)
(* is in the registry and installed.  Without a worker it answers at once. *)
StartCall(r, c, there) ==
  /\ door[r] = "execute" /\ call[r].at = "idle"
  /\ call' = [call EXCEPT ![r] = [NoCall EXCEPT !.at = "running", !.what = c]]
  /\ IF there /\ c.valid THEN At(r, "starting") ELSE UNCHANGED worker
  /\ UNCHANGED <<flight, acted, asked, repoVars>>

(* Mutant: tools.py is imported before the settings are applied.           *)
BootImportFirst(r) ==
  /\ worker[r].at = "starting"
  /\ worker' = [worker EXCEPT ![r].at = "ready", ![r].env = GatewayUrl,
                              ![r].cfg = DefaultUrl["radarr"]]
  /\ UNCHANGED <<call, flight, acted, asked, repoVars>>

(* sandbox_worker._main: the settings from stdin go into the environment,  *)
(* which has no other, then tools.py and with it config.py is imported.    *)
Boot(r) ==
  /\ worker[r].at = "starting"
  /\ worker' = [worker EXCEPT ![r].at = "ready", ![r].env = GatewayUrl,
                  ![r].cfg = IF GatewayUrl["radarr"] = NoUrl THEN DefaultUrl["radarr"]
                             ELSE GatewayUrl["radarr"]]
  /\ UNCHANGED <<call, flight, acted, asked, repoVars>>

(* run_tool_by_name; a reviewed generated tool has no entry in its table.  *)
RunUnknown(r) ==
  /\ worker[r].at = "ready" /\ call[r].what.tool \notin ServiceTools \cup RepoToolNames
  /\ Finish(r, FALSE)
  /\ UNCHANGED <<call, flight, acted, asked, repoVars>>

(* A tool that turns its arguments down before it looks or asks: an empty  *)
(* title, query, path or patch, one that is too long, a root that is no    *)
(* directory of the repository.                                            *)
ToolRefuses(r) ==
  /\ worker[r].at = "ready" /\ call[r].what.tool \in ServiceTools \cup RepoToolNames
  /\ ~call[r].what.usable
  /\ Finish(r, FALSE)
  /\ UNCHANGED <<call, flight, acted, asked, repoVars>>

RunFileTool(r) ==
  LET c == call[r].what
  IN  /\ worker[r].at = "ready" /\ c.tool \in FileTools /\ c.usable
      /\ Finish(r, FileAnswer(c.tool, c.file))
      /\ UNCHANGED <<call, flight, acted, asked, repoVars>>

StartWalk(r) ==
  LET c == call[r].what
  IN  /\ worker[r].at = "ready" /\ c.tool \in WalkTools /\ c.usable
      /\ StartScan(r, c.tool, c.max)
      /\ At(r, "walking")
      /\ UNCHANGED <<call, flight, acted, asked, tree, edits>>

(* The first request of a service tool: a look-up, or the action itself.   *)
Request(r) ==
  LET tool  == call[r].what.tool
      first == IF tool \in Actors \ Adders THEN "act" ELSE "get"
  IN  /\ worker[r].at = "ready" /\ tool \in ServiceTools /\ call[r].what.usable
      /\ IF ValidateHttpDestination(Target(r, first), BaseUrl(r))
         THEN /\ At(r, IF first = "act" THEN "acting" ELSE "getting")
              /\ asked' = [asked EXCEPT ![r] = @ \cup {Target(r, first)}]
              /\ flight' = [flight EXCEPT ![r] = IF first = "act" THEN "sent" ELSE @]
         ELSE Finish(r, FALSE) /\ UNCHANGED <<flight, asked>>
      /\ UNCHANGED <<call, acted, repoVars>>

WalkFile(r, k) ==
  /\ worker[r].at = "walking"
  /\ ScanFile(r, k)
  /\ UNCHANGED <<callVars, tree, edits>>

WalkEnds(r) ==
  /\ worker[r].at = "walking" /\ ScanDone(r)
  /\ Finish(r, TRUE)
  /\ UNCHANGED <<call, flight, acted, asked, repoVars>>

(* The answer of a look-up that is all the tool does; ok: no httpx error   *)
(* and no error status.                                                    *)
SearchAnswered(r, ok) ==
  /\ worker[r].at = "getting" /\ call[r].what.tool \notin Adders
  /\ Finish(r, ok)
  /\ UNCHANGED <<call, flight, acted, asked, repoVars>>

(* An adder posts the first candidate, if there is one.                    *)
AddPosts(r) ==
  /\ worker[r].at = "getting" /\ call[r].what.tool \in Adders
  /\ ValidateHttpDestination(Target(r, "act"), BaseUrl(r))
  /\ At(r, "acting")
  /\ asked' = [asked EXCEPT ![r] = @ \cup {Target(r, "act")}]
  /\ flight' = [flight EXCEPT ![r] = "sent"]
  /\ UNCHANGED <<call, acted, repoVars>>

(* An error, or nothing found; its address is valid when the look-up's was.*)
AddGivesUp(r) ==
  /\ worker[r].at = "getting" /\ call[r].what.tool \in Adders
  /\ Finish(r, FALSE)
  /\ UNCHANGED <<call, flight, acted, asked, repoVars>>

(* Mutant: the status of the answer is not looked at.                      *)
ActAnsweredUnchecked(r) ==
  /\ worker[r].at = "acting"
  /\ Finish(r, TRUE)
  /\ UNCHANGED <<call, flight, acted, asked, repoVars>>

(* A good status: the service did what it was asked for.                   *)
ActAnswered(r) ==
  /\ worker[r].at = "acting" /\ flight[r] = "done"
  /\ Finish(r, TRUE)
  /\ UNCHANGED <<call, flight, acted, asked, repoVars>>

(* Another status, or no answer: refused, still on its way, or done.       *)
ActFails(r) ==
  /\ worker[r].at = "acting"
  /\ Finish(r, FALSE)
  /\ \/ flight[r] = "sent" /\ flight' = [flight EXCEPT ![r] = "none"]
     \/ UNCHANGED flight
  /\ UNCHANGED <<call, acted, asked, repoVars>>

(* An import that fails, an answer of another shape, the system's choice.  *)
WorkerDies(r) ==
  /\ worker[r].at \in Live
  /\ At(r, "crashed")
  /\ UNCHANGED <<call, flight, acted, asked, repoVars>>

(* The service carries out what is on its way, whoever still waits for it. *)
Accept(r) ==
  /\ flight[r] = "sent"
  /\ flight' = [flight EXCEPT ![r] = "done"]
  /\ acted' = acted \cup {r}
  /\ UNCHANGED <<call, worker, asked, repoVars>>
-----------------------------------------------------------------------------
Answer(r, result) ==
  /\ call' = [call EXCEPT ![r].at = "answered", ![r].result = result]
  /\ UNCHANGED <<worker, flight, acted, asked, repoVars>>

(* _run_tool_subprocess: the exit status and the printed result.           *)
Collect(r) ==
  /\ call[r].at = "running"
  /\ \/ worker[r].at \in {"none", "crashed"} /\ Answer(r, NoResult)
     \/ /\ worker[r].at = "exited"
        /\ Answer(r, [success |-> worker[r].ok, in_worker |-> TRUE, timeout |-> FALSE])

Kill(r) == worker' = [worker EXCEPT ![r].at = IF @ \in Live THEN "killed" ELSE @]

(* Mutant: the worker is left alone.                                       *)
TimeoutNoKill(r) ==
  /\ call[r].at = "running" /\ worker[r].at # "none"
  /\ call' = [call EXCEPT ![r].at = "draining"]
  /\ UNCHANGED <<worker, flight, acted, asked, repoVars>>

(* Mutant: communicate waits without a timeout.                            *)
TimeoutForgotten(r) ==
  /\ call[r].at = "running" /\ worker[r].at \in {"exited", "crashed"}
  /\ call' = [call EXCEPT ![r].at = "draining"]
  /\ UNCHANGED <<worker, flight, acted, asked, repoVars>>

(* The timeout of communicate, which may race the worker's last word.      *)
Timeout(r) ==
  /\ call[r].at = "running" /\ worker[r].at # "none"
  /\ call' = [call EXCEPT ![r].at = "draining"]
  /\ Kill(r)
  /\ UNCHANGED <<flight, acted, asked, repoVars>>

Drain(r) ==
  /\ call[r].at = "draining"
  /\ Answer(r, [NoResult EXCEPT !.timeout = TRUE])

(* The pipes stay open: the handler of the second timeout reads a variable *)
(* that was never assigned, and the call raises.                           *)
DrainTimesOut(r) ==
  /\ call[r].at = "draining"
  /\ call' = [call EXCEPT ![r].at = "raised"]
  /\ UNCHANGED <<worker, flight, acted, asked, repoVars>>

WorkerStep(r) ==
  \/ Boot(r) \/ RunUnknown(r) \/ ToolRefuses(r) \/ RunFileTool(r) \/ StartWalk(r) \/ Request(r)
  \/ \E ok \in BOOLEAN : SearchAnswered(r, ok)
  \/ AddPosts(r) \/ AddGivesUp(r) \/ ActAnswered(r) \/ ActFails(r)
  \/ \E k \in 0..TopResults["search_repo"] : WalkFile(r, k)
  \/ WalkEnds(r) \/ WorkerDies(r)

CallInit ==
  /\ call = [r \in Requests |-> NoCall]
  /\ worker = [r \in Requests |-> NoWorker]
  /\ flight = [r \in Requests |-> "none"]
  /\ acted = {} /\ asked = [r \in Requests |-> {}]
-----------------------------------------------------------------------------
(* A step of a plan is told "ok" only for a result the worker itself       *)
(* printed, and a tool that acts says so only when its service acted; the  *)
(* reverse does not hold, an answer may be lost.  A worker that was killed *)
(* or crashed is never taken for one that answered, and no service acts    *)
(* for a call that is not one of an acting tool with valid arguments.      *)
ResultTellsWhatHappened ==
  \A r \in Requests :
    LET c == call[r]
    IN  /\ c.result.success => c.result.in_worker /\ (c.what.tool \in Actors => r \in acted)
        /\ c.result.in_worker => worker[r].at = "exited" /\ c.result.success = worker[r].ok
        /\ worker[r].at = "killed" /\ c.at = "answered" => c.result.timeout
        /\ r \in acted => c.what.tool \in Actors /\ c.what.valid

(* Every address a worker asks lies under the one the gateway's own        *)
(* environment configures for the tool's service, or under tools.py's      *)
(* default where it configures none: the settings cross two processes and, *)
(* for radarr_add, the import of config.py.                                *)
ConfiguredService ==
  \A r \in Requests : \A url \in asked[r] :
    LET s    == ServiceOf(call[r].what.tool)
        base == IF GatewayUrl[s] = NoUrl THEN DefaultUrl[s] ELSE GatewayUrl[s]
    IN  /\ url.origin = base.origin /\ base.origin # NoOrigin
        /\ SubSeq(url.path, 1, Len(base.path)) = base.path

(* Once the caller has its answer the worker asks no service for anything  *)
(* more: a timeout does not leave a tool at work behind the plan's back.   *)
WorkerEndsWithCall ==
  [][\A r \in Requests : call[r].at \in {"answered", "raised"} =>
       /\ asked'[r] = asked[r]
       /\ flight'[r] = "sent" => flight[r] = "sent"
       /\ scan'[r] = scan[r]]_<<callVars, repoVars>>

(* However long the worker or its service takes, sandbox.py's two timeouts *)
(* end the call, with a result or with an error.                           *)
EveryCallAnswered ==
  \A r \in Requests : call[r].at = "running" ~> call[r].at \in {"answered", "raised"}
=============================================================================
